---- MODULE Spec2Model ----
(***************************************************************************)
(* Model of the easyjson library (github.com/javanhut/easyjson).           *)
(*                                                                         *)
(* Strings are sequences of one-character strings, so that splitting,      *)
(* integer parsing and scanning are computed character by character.       *)
(* Go values held in an interface{} are tagged records; maps and the       *)
(* backing arrays of slices live in a heap, so that aliasing between       *)
(* wrappers (JSONValue objects) is visible.                                *)
(***************************************************************************)
EXTENDS Integers, Sequences, FiniteSets, TLC

VARIABLES heap, jv, fam, last, nops, jsonStr, js

vars == <<heap, jv, fam, last, nops, jsonStr, js>>

(***************************************************************************)
(* Bounds of the model.                                                    *)
(***************************************************************************)
MaxOps == 2
MaxPieces == 2
MaxKeys == 3
MaxSegs == 3
MaxPaths == 2
MaxItems == 3
MaxSteps == 2
MaxFields == 2

(***************************************************************************)
(* Strings.                                                                *)
(***************************************************************************)
DigitChars == {"0", "1", "2", "3", "4", "5", "6", "7", "8", "9"}

DigitVal == ("0" :> 0) @@ ("1" :> 1) @@ ("2" :> 2) @@ ("3" :> 3) @@ ("4" :> 4)
            @@ ("5" :> 5) @@ ("6" :> 6) @@ ("7" :> 7) @@ ("8" :> 8) @@ ("9" :> 9)

DigitChar == <<"0", "1", "2", "3", "4", "5", "6", "7", "8", "9">>

RECURSIVE DigitsValue(_, _)
DigitsValue(s, acc) ==
    IF s = <<>> THEN acc ELSE DigitsValue(Tail(s), acc * 10 + DigitVal[Head(s)])

\* strconv.Atoi: an optional sign followed by one or more decimal digits.
AtoiBody(s) == IF s # <<>> /\ Head(s) \in {"+", "-"} THEN Tail(s) ELSE s

AtoiOk(s) ==
    /\ AtoiBody(s) # <<>>
    /\ \A i \in 1..Len(AtoiBody(s)) : AtoiBody(s)[i] \in DigitChars

Atoi(s) ==
    IF Head(s) = "-" THEN 0 - DigitsValue(AtoiBody(s), 0)
    ELSE DigitsValue(AtoiBody(s), 0)

RECURSIVE NatToStr(_)
NatToStr(n) ==
    IF n < 10 THEN <<DigitChar[n + 1]>>
    ELSE NatToStr(n \div 10) \o <<DigitChar[(n % 10) + 1]>>

\* strconv.Itoa, and fmt's %v of an integer-valued float64 of small magnitude.
IntToStr(n) == IF n < 0 THEN <<"-">> \o NatToStr(0 - n) ELSE NatToStr(n)

\* strings.Split(s, sep) for a one-character separator: always at least one part.
RECURSIVE SplitAcc(_, _, _, _)
SplitAcc(s, sep, cur, acc) ==
    IF s = <<>> THEN Append(acc, cur)
    ELSE IF Head(s) = sep THEN SplitAcc(Tail(s), sep, <<>>, Append(acc, cur))
    ELSE SplitAcc(Tail(s), sep, Append(cur, Head(s)), acc)

Split(s, sep) == SplitAcc(s, sep, <<>>, <<>>)

\* strings.ToLower
UpperCase ==
    <<"A", "B", "C", "D", "E", "F", "G", "H", "I", "J", "K", "L", "M",
      "N", "O", "P", "Q", "R", "S", "T", "U", "V", "W", "X", "Y", "Z">>

LowerCase ==
    <<"a", "b", "c", "d", "e", "f", "g", "h", "i", "j", "k", "l", "m",
      "n", "o", "p", "q", "r", "s", "t", "u", "v", "w", "x", "y", "z">>

LowerChar(c) ==
    IF \E i \in DOMAIN UpperCase : UpperCase[i] = c
      THEN LowerCase[CHOOSE i \in DOMAIN UpperCase : UpperCase[i] = c]
      ELSE c

ToLower(s) == [i \in 1..Len(s) |-> LowerChar(s[i])]

(***************************************************************************)
(* Go values (the dynamic content of an interface{}).                      *)
(***************************************************************************)
Null == [t |-> "null"]
BoolV(b) == [t |-> "bool", b |-> b]
FloatV(n) == [t |-> "num", n |-> n]
IntV(n) == [t |-> "int", n |-> n]
StrV(s) == [t |-> "str", s |-> s]
MapRef(id) == [t |-> "map", id |-> id]
Slice(arr, len) == [t |-> "slice", arr |-> arr, len |-> len]
NilSlice == Slice(0, 0)

\* A wrapper that has not been created yet.
Absent == [t |-> "absent"]

EmptyHeap == [maps |-> <<>>, arrs |-> <<>>]

\* cap(v) of a slice value.
Cap(h, v) == IF v.arr = 0 THEN 0 ELSE Len(h.arrs[v.arr])

\* The elements of a slice value, v[0:len(v)].
Elems(h, v) == IF v.arr = 0 THEN <<>> ELSE SubSeq(h.arrs[v.arr], 1, v.len)

(***************************************************************************)
(* JSON documents: what encoding/json writes and reads.  Marshal turns Go  *)
(* values into a document, Unmarshal allocates fresh maps and slices for   *)
(* one.                                                                    *)
(***************************************************************************)
JNull == [t |-> "null"]
JBool(b) == [t |-> "bool", b |-> b]
JNum(n) == [t |-> "num", n |-> n]
JStr(s) == [t |-> "str", s |-> s]
JArr(a) == [t |-> "arr", a |-> a]
JObj(m) == [t |-> "obj", m |-> m]

EmptyMap == [k \in {} |-> Null]

\* json.Marshal: an int and a float64 both become a number, a nil slice
\* becomes null.
RECURSIVE Marshal(_, _)
Marshal(h, v) ==
    CASE v.t = "null" -> JNull
      [] v.t = "bool" -> JBool(v.b)
      [] v.t = "num" -> JNum(v.n)
      [] v.t = "int" -> JNum(v.n)
      [] v.t = "str" -> JStr(v.s)
      [] v.t = "map" ->
            JObj([k \in DOMAIN h.maps[v.id] |-> Marshal(h, h.maps[v.id][k])])
      [] v.t = "slice" ->
            IF v.arr = 0 THEN JNull
            ELSE JArr([i \in 1..v.len |-> Marshal(h, h.arrs[v.arr][i])])

\* The capacity the runtime gives a slice that append has to grow (small
\* slices: at least double, or exactly what is needed when that is more).
GrowCap(old, need) == IF need > 2 * old THEN need ELSE 2 * old

\* append(s, vals...): in place when the capacity allows, else into a new
\* backing array.  Returns the heap and the new slice value.
AppendSlice(h, s, vals) ==
    LET need == s.len + Len(vals)
        old == Elems(h, s)
    IN  IF vals = <<>> THEN [h |-> h, v |-> s]
        ELSE IF need <= Cap(h, s) THEN
            [h |-> [h EXCEPT !.arrs[s.arr] =
                        [i \in 1..Len(@) |->
                            IF i > s.len /\ i <= need THEN vals[i - s.len] ELSE @[i]]],
             v |-> Slice(s.arr, need)]
        ELSE
            LET newcap == GrowCap(Cap(h, s), need)
                backing == [i \in 1..newcap |->
                               IF i <= s.len THEN old[i]
                               ELSE IF i <= need THEN vals[i - s.len] ELSE Null]
            IN  [h |-> [h EXCEPT !.arrs = Append(@, backing)],
                 v |-> Slice(Len(h.arrs) + 1, need)]

\* make([]interface{}, 0)
MakeSlice(h) ==
    [h |-> [h EXCEPT !.arrs = Append(@, <<>>)], v |-> Slice(Len(h.arrs) + 1, 0)]

\* make(map[string]interface{})
MakeMap(h) ==
    [h |-> [h EXCEPT !.maps = Append(@, EmptyMap)], v |-> MapRef(Len(h.maps) + 1)]

MapPut(h, id, k, v) ==
    [h EXCEPT !.maps[id] = [x \in DOMAIN @ \cup {k} |-> IF x = k THEN v ELSE @[x]]]

RECURSIVE Unmarshal(_, _)
RECURSIVE UnmarshalArr(_, _, _)
RECURSIVE UnmarshalObj(_, _, _, _)

\* json.Unmarshal into an interface{}: numbers become float64, arrays are
\* built by appending to an empty slice, objects by filling a new map.
Unmarshal(h, d) ==
    CASE d.t = "null" -> [h |-> h, v |-> Null]
      [] d.t = "bool" -> [h |-> h, v |-> BoolV(d.b)]
      [] d.t = "num" -> [h |-> h, v |-> FloatV(d.n)]
      [] d.t = "str" -> [h |-> h, v |-> StrV(d.s)]
      [] d.t = "arr" -> UnmarshalArr(MakeSlice(h).h, MakeSlice(h).v, d.a)
      [] d.t = "obj" -> UnmarshalObj(MakeMap(h).h, MakeMap(h).v.id, d.m, DOMAIN d.m)

UnmarshalArr(h, s, items) ==
    IF items = <<>> THEN [h |-> h, v |-> s]
    ELSE LET item == Unmarshal(h, Head(items))
             app == AppendSlice(item.h, s, <<item.v>>)
         IN  UnmarshalArr(app.h, app.v, Tail(items))

UnmarshalObj(h, id, m, todo) ==
    IF todo = {} THEN [h |-> h, v |-> MapRef(id)]
    ELSE LET k == CHOOSE x \in todo : TRUE
             item == Unmarshal(h, m[k])
         IN  UnmarshalObj(MapPut(item.h, id, k, item.v), id, m, todo \ {k})

(***************************************************************************)
(* easyjson.go: the JSONValue wrapper.                                     *)
(***************************************************************************)
IsNull(v) == v.t = "null"
IsObject(v) == v.t = "map"
IsArray(v) == v.t = "slice"

\* Get without the keyInt >= 0 test: indexing with a negative index panics.
GetNoLowerBound(h, v, key) ==
    IF v.t = "map" THEN
        IF key.t = "str" /\ key.s \in DOMAIN h.maps[v.id] THEN h.maps[v.id][key.s]
        ELSE Null
    ELSE IF v.t = "slice" THEN
        IF key.t = "int" /\ key.n < v.len THEN
            IF key.n >= 0 THEN h.arrs[v.arr][key.n + 1] ELSE [t |-> "panic"]
        ELSE Null
    ELSE Null

\* JSONValue.Get: the data of the wrapper Get returns.
Get(h, v, key) ==
    IF v.t = "map" THEN
        IF key.t = "str" /\ key.s \in DOMAIN h.maps[v.id] THEN h.maps[v.id][key.s]
        ELSE Null
    ELSE IF v.t = "slice" THEN
        IF key.t = "int" /\ key.n >= 0 /\ key.n < v.len THEN h.arrs[v.arr][key.n + 1]
        ELSE Null
    ELSE Null

\* JSONValue.Has
Has(h, v, key) ==
    IF v.t = "map" THEN key.t = "str" /\ key.s \in DOMAIN h.maps[v.id]
    ELSE IF v.t = "slice" THEN key.t = "int" /\ key.n >= 0 /\ key.n < v.len
    ELSE FALSE

\* JSONValue.Keys, as a set
Keys(h, v) == IF v.t = "map" THEN DOMAIN h.maps[v.id] ELSE {}

\* JSONValue.Q: chained Get, stopping at the first null.
RECURSIVE Q(_, _, _)
Q(h, v, keys) ==
    IF keys = <<>> THEN v
    ELSE LET current == Get(h, v, Head(keys))
         IN  IF IsNull(current) THEN current ELSE Q(h, current, Tail(keys))

\* The key Path and SetPath look a segment up with.
PartKey(part) == IF AtoiOk(part) THEN IntV(Atoi(part)) ELSE StrV(part)

RECURSIVE PathParts(_, _, _)
PathParts(h, v, parts) ==
    IF parts = <<>> THEN v
    ELSE IF Head(parts) = <<>> THEN PathParts(h, v, Tail(parts))
    ELSE LET current == Get(h, v, PartKey(Head(parts)))
         IN  IF IsNull(current) THEN current ELSE PathParts(h, current, Tail(parts))

\* JSONValue.Path
Path(h, v, path) == PathParts(h, v, Split(path, "."))

NoErr == "nil"

\* JSONValue.Set: the heap after the call and the error returned.
SetVal(h, v, key, val) ==
    IF v.t = "map" THEN
        IF key.t = "str" THEN [h |-> MapPut(h, v.id, key.s, val), err |-> NoErr]
        ELSE [h |-> h, err |-> "key must be string for object"]
    ELSE IF v.t = "slice" THEN
        IF key.t = "int" THEN
            IF key.n >= 0 /\ key.n < v.len THEN
                [h |-> [h EXCEPT !.arrs[v.arr][key.n + 1] = val], err |-> NoErr]
            ELSE [h |-> h, err |-> "index out of range"]
        ELSE [h |-> h, err |-> "key must be int for array"]
    ELSE [h |-> h, err |-> "cannot set on non-object/array type"]

\* Delete that copies the tail down but does not store the shorter slice.
DeleteValKeepsLen(h, v, key) ==
    IF v.t = "map" THEN
        IF key.t = "str" THEN
            [h |-> [h EXCEPT !.maps[v.id] = [x \in DOMAIN @ \ {key.s} |-> @[x]]],
             v |-> v, err |-> NoErr]
        ELSE [h |-> h, v |-> v, err |-> "key must be string for object"]
    ELSE IF v.t = "slice" THEN
        IF key.t = "int" THEN
            IF key.n >= 0 /\ key.n < v.len THEN
                [h |-> [h EXCEPT !.arrs[v.arr] =
                            [i \in 1..Len(@) |->
                                IF i > key.n /\ i < v.len THEN @[i + 1] ELSE @[i]]],
                 v |-> v, err |-> NoErr]
            ELSE [h |-> h, v |-> v, err |-> "index out of range"]
        ELSE [h |-> h, v |-> v, err |-> "key must be int for array"]
    ELSE [h |-> h, v |-> v, err |-> "cannot delete from non-object/array type"]

\* JSONValue.Delete: the heap, the data of the receiver and the error.  On a
\* slice the tail is copied down inside the backing array and the receiver
\* alone gets the shorter slice.
DeleteVal(h, v, key) ==
    IF v.t = "map" THEN
        IF key.t = "str" THEN
            [h |-> [h EXCEPT !.maps[v.id] = [x \in DOMAIN @ \ {key.s} |-> @[x]]],
             v |-> v, err |-> NoErr]
        ELSE [h |-> h, v |-> v, err |-> "key must be string for object"]
    ELSE IF v.t = "slice" THEN
        IF key.t = "int" THEN
            IF key.n >= 0 /\ key.n < v.len THEN
                [h |-> [h EXCEPT !.arrs[v.arr] =
                            [i \in 1..Len(@) |->
                                IF i > key.n /\ i < v.len THEN @[i + 1] ELSE @[i]]],
                 v |-> Slice(v.arr, v.len - 1), err |-> NoErr]
            ELSE [h |-> h, v |-> v, err |-> "index out of range"]
        ELSE [h |-> h, v |-> v, err |-> "key must be int for array"]
    ELSE [h |-> h, v |-> v, err |-> "cannot delete from non-object/array type"]

\* JSONValue.Extend; Append is Extend with one value.
ExtendVal(h, v, vals) ==
    IF v.t = "slice" THEN
        [h |-> AppendSlice(h, v, vals).h, v |-> AppendSlice(h, v, vals).v, err |-> NoErr]
    ELSE [h |-> h, v |-> v, err |-> "cannot extend non-array type"]

\* JSONValue.Append
AppendVal(h, v, val) ==
    IF v.t = "slice" THEN
        [h |-> AppendSlice(h, v, <<val>>).h, v |-> AppendSlice(h, v, <<val>>).v,
         err |-> NoErr]
    ELSE [h |-> h, v |-> v, err |-> "cannot append to non-array type"]

\* JSONValue.Update
UpdateVal(h, v, other) ==
    IF v.t = "map" THEN
        IF other.t = "map" THEN
            [h |-> [h EXCEPT !.maps[v.id] =
                        [x \in DOMAIN @ \cup DOMAIN h.maps[other.id] |->
                            IF x \in DOMAIN h.maps[other.id] THEN h.maps[other.id][x]
                            ELSE @[x]]],
             err |-> NoErr]
        ELSE [h |-> h, err |-> "can only update with another object"]
    ELSE [h |-> h, err |-> "cannot update non-object type"]

\* A clone that copies the top-level map only.
CloneOneLevel(h, v) ==
    IF v.t = "map" THEN
        [h |-> [h EXCEPT !.maps = Append(@, h.maps[v.id])], v |-> MapRef(Len(h.maps) + 1)]
    ELSE [h |-> h, v |-> v]

\* JSONValue.Clone: marshal, then unmarshal into fresh maps and slices.
Clone(h, v) == Unmarshal(h, Marshal(h, v))

\* The loop of SetPath over parts[:len(parts)-1]; i counts from 1.  The
\* errors of the intermediate Set calls are dropped, as in the code.
RECURSIVE SetPathWalk(_, _, _, _)
SetPathWalk(h, current, parts, i) ==
    IF i > Len(parts) - 1 THEN [h |-> h, current |-> current]
    ELSE IF parts[i] = <<>> THEN SetPathWalk(h, current, parts, i + 1)
    ELSE IF ~IsNull(Get(h, current, PartKey(parts[i]))) THEN
        SetPathWalk(h, Get(h, current, PartKey(parts[i])), parts, i + 1)
    ELSE
        LET made == IF i < Len(parts) - 1 /\ AtoiOk(parts[i + 1]) THEN MakeSlice(h)
                    ELSE MakeMap(h)
            set == SetVal(made.h, current, StrV(parts[i]), made.v)
        IN  SetPathWalk(set.h, Get(set.h, current, PartKey(parts[i])), parts, i + 1)

\* A SetPath that writes the last segment into the receiver itself.
SetPathAtReceiver(h, v, path, val) ==
    LET parts == Split(path, ".")
    IN  SetVal(h, v, PartKey(parts[Len(parts)]), val)

\* JSONValue.SetPath
SetPath(h, v, path, val) ==
    LET parts == Split(path, ".")
        walk == SetPathWalk(h, v, parts, 1)
    IN  SetVal(walk.h, walk.current, PartKey(parts[Len(parts)]), val)

(***************************************************************************)
(* Byte order of the characters the model uses (their ASCII codes).        *)
(***************************************************************************)
CharCode ==
    (" " :> 32) @@ ("\"" :> 34) @@ ("'" :> 39) @@ ("+" :> 43) @@ ("," :> 44)
    @@ ("-" :> 45) @@ ("." :> 46) @@ ("0" :> 48) @@ ("1" :> 49) @@ ("2" :> 50)
    @@ ("3" :> 51) @@ ("4" :> 52) @@ ("5" :> 53) @@ ("6" :> 54) @@ ("7" :> 55)
    @@ ("8" :> 56) @@ ("9" :> 57) @@ (":" :> 58) @@ ("<" :> 60) @@ (">" :> 62)
    @@ ("F" :> 70) @@ ("N" :> 78) @@ ("T" :> 84) @@ ("[" :> 91) @@ ("\\" :> 92)
    @@ ("]" :> 93) @@ ("_" :> 95) @@ ("a" :> 97) @@ ("b" :> 98) @@ ("c" :> 99)
    @@ ("d" :> 100) @@ ("e" :> 101) @@ ("f" :> 102) @@ ("g" :> 103) @@ ("h" :> 104)
    @@ ("i" :> 105) @@ ("j" :> 106) @@ ("k" :> 107) @@ ("l" :> 108) @@ ("m" :> 109)
    @@ ("n" :> 110) @@ ("o" :> 111) @@ ("p" :> 112) @@ ("q" :> 113) @@ ("r" :> 114)
    @@ ("s" :> 115) @@ ("t" :> 116) @@ ("u" :> 117) @@ ("v" :> 118) @@ ("w" :> 119)
    @@ ("x" :> 120) @@ ("y" :> 121) @@ ("z" :> 122) @@ ("{" :> 123) @@ ("}" :> 125)

\* Go's < on strings: bytewise lexicographic order.
RECURSIVE StrLess(_, _)
StrLess(a, b) ==
    IF b = <<>> THEN FALSE
    ELSE IF a = <<>> THEN TRUE
    ELSE IF Head(a) # Head(b) THEN CharCode[Head(a)] < CharCode[Head(b)]
    ELSE StrLess(Tail(a), Tail(b))

\* The keys of a set in increasing order (fmt prints maps sorted by key).
RECURSIVE SortedKeys(_)
SortedKeys(S) ==
    IF S = {} THEN <<>>
    ELSE LET m == CHOOSE x \in S : \A y \in S \ {x} : StrLess(x, y)
         IN  <<m>> \o SortedKeys(S \ {m})

sNil == <<"<", "n", "i", "l", ">">>
sTrue == <<"t", "r", "u", "e">>
sFalse == <<"f", "a", "l", "s", "e">>
sNull == <<"n", "u", "l", "l">>
sEmpty == <<>>

RECURSIVE JoinWith(_, _)
JoinWith(parts, sep) ==
    IF parts = <<>> THEN <<>>
    ELSE IF Len(parts) = 1 THEN parts[1]
    ELSE parts[1] \o sep \o JoinWith(Tail(parts), sep)

\* fmt.Sprintf("%v", data)
RECURSIVE Sprintv(_, _)
Sprintv(h, v) ==
    CASE v.t = "null" -> sNil
      [] v.t = "bool" -> IF v.b THEN sTrue ELSE sFalse
      [] v.t = "num" -> IntToStr(v.n)
      [] v.t = "int" -> IntToStr(v.n)
      [] v.t = "str" -> v.s
      [] v.t = "map" ->
            LET m == h.maps[v.id]
                ks == SortedKeys(DOMAIN m)
            IN  <<"m", "a", "p", "[">>
                \o JoinWith([i \in 1..Len(ks) |->
                                ks[i] \o <<":">> \o Sprintv(h, m[ks[i]])], <<" ">>)
                \o <<"]">>
      [] v.t = "slice" ->
            <<"[">> \o JoinWith([i \in 1..v.len |-> Sprintv(h, h.arrs[v.arr][i])], <<" ">>)
            \o <<"]">>

\* JSONValue.AsString
AsString(h, v) == IF v.t = "str" THEN v.s ELSE Sprintv(h, v)

\* JSONValue.AsInt
AsInt(v) ==
    CASE v.t = "num" -> v.n
      [] v.t = "int" -> v.n
      [] v.t = "str" -> IF AtoiOk(v.s) THEN Atoi(v.s) ELSE 0
      [] OTHER -> 0

\* JSONValue.AsFloat.  Numbers are integer-valued in the model, and the only
\* strings strconv.ParseFloat accepts among the model's strings are the
\* decimal integers.
AsFloat(v) ==
    CASE v.t = "num" -> v.n
      [] v.t = "int" -> v.n
      [] v.t = "str" -> IF AtoiOk(v.s) THEN Atoi(v.s) ELSE 0
      [] OTHER -> 0

\* JSONValue.AsBool
AsBool(v) ==
    CASE v.t = "bool" -> v.b
      [] v.t = "str" -> ToLower(v.s) = sTrue
      [] v.t = "num" -> v.n # 0
      [] v.t = "int" -> v.n # 0
      [] OTHER -> FALSE

\* JSONValue.AsArray: the data of the wrappers in the returned slice.
AsArray(h, v) == IF v.t = "slice" THEN Elems(h, v) ELSE <<>>

\* JSONValue.AsObject: the data of the wrappers in the returned map.
AsObject(h, v) == IF v.t = "map" THEN h.maps[v.id] ELSE EmptyMap

(***************************************************************************)
(* smart_getters.go                                                        *)
(***************************************************************************)
\* The type the last variadic argument must have to be taken as the default.
DefaultType(getter) ==
    CASE getter = "GetString" -> "str"
      [] getter = "GetInt" -> "int"
      [] getter = "GetBool" -> "bool"
      [] getter = "GetFloat" -> "num"

\* The default test without the len(keys) > 1 condition.
HasDefaultAnyLen(getter, keys) ==
    Len(keys) > 0 /\ keys[Len(keys)].t = DefaultType(getter)

\* Whether the getter takes its last argument as the default value.
HasDefault(getter, keys) ==
    Len(keys) > 1 /\ keys[Len(keys)].t = DefaultType(getter)

\* The path the getter queries.
GetterPath(getter, keys) ==
    IF HasDefault(getter, keys) THEN SubSeq(keys, 1, Len(keys) - 1) ELSE keys

\* The zero value of the getter's return type (var defaultValue T).
ZeroOf(getter) ==
    CASE getter = "GetString" -> StrV(sEmpty)
      [] getter = "GetInt" -> IntV(0)
      [] getter = "GetBool" -> BoolV(FALSE)
      [] getter = "GetFloat" -> FloatV(0)

\* A getter that forgets the default it was given.
GetterDefaultAlwaysZero(getter, keys) == ZeroOf(getter)

GetterDefault(getter, keys) ==
    IF HasDefault(getter, keys) THEN keys[Len(keys)] ELSE ZeroOf(getter)

\* The coercion the getter applies to a non-null result, as a Go value.
Coerce(getter, h, v) ==
    CASE getter = "GetString" -> StrV(AsString(h, v))
      [] getter = "GetInt" -> IntV(AsInt(v))
      [] getter = "GetBool" -> BoolV(AsBool(v))
      [] getter = "GetFloat" -> FloatV(AsFloat(v))

\* GetString, GetInt, GetBool, GetFloat: the four share one body.
SmartGet(getter, h, v, keys) ==
    LET result == Q(h, v, GetterPath(getter, keys))
    IN  IF ~IsNull(result) THEN Coerce(getter, h, result)
        ELSE GetterDefault(getter, keys)

(***************************************************************************)
(* multi_path.go                                                           *)
(***************************************************************************)
\* TryPaths that keeps trying and returns the last candidate that resolves.
RECURSIVE TryPathsLast(_, _, _)
TryPathsLast(h, v, paths) ==
    IF paths = <<>> THEN Null
    ELSE LET result == Path(h, v, paths[Len(paths)])
         IN  IF ~IsNull(result) THEN result
             ELSE TryPathsLast(h, v, SubSeq(paths, 1, Len(paths) - 1))

\* JSONValue.TryPaths
RECURSIVE TryPaths(_, _, _)
TryPaths(h, v, paths) ==
    IF paths = <<>> THEN Null
    ELSE LET result == Path(h, v, Head(paths))
         IN  IF ~IsNull(result) THEN result ELSE TryPaths(h, v, Tail(paths))

(***************************************************************************)
(* Dumps: the text json.Marshal writes.  The strings of the model have no  *)
(* character that Marshal escapes other than the quote and the backslash.  *)
(***************************************************************************)
RECURSIVE EncodeString(_)
EncodeString(s) ==
    IF s = <<>> THEN <<>>
    ELSE (IF Head(s) \in {"\"", "\\"} THEN <<"\\", Head(s)>> ELSE <<Head(s)>>)
         \o EncodeString(Tail(s))

RECURSIVE Encode(_)
Encode(d) ==
    CASE d.t = "null" -> sNull
      [] d.t = "bool" -> IF d.b THEN sTrue ELSE sFalse
      [] d.t = "num" -> IntToStr(d.n)
      [] d.t = "str" -> <<"\"">> \o EncodeString(d.s) \o <<"\"">>
      [] d.t = "arr" ->
            <<"[">> \o JoinWith([i \in 1..Len(d.a) |-> Encode(d.a[i])], <<",">>) \o <<"]">>
      [] d.t = "obj" ->
            LET ks == SortedKeys(DOMAIN d.m)
            IN  <<"{">>
                \o JoinWith([i \in 1..Len(ks) |->
                                <<"\"">> \o EncodeString(ks[i]) \o <<"\"", ":">>
                                \o Encode(d.m[ks[i]])], <<",">>)
                \o <<"}">>

\* JSONValue.Dumps; Marshal does not fail on the values of the model.
Dumps(h, v) == Encode(Marshal(h, v))

(***************************************************************************)
(* array_operations.go.  A callback is one of a few pure functions of the  *)
(* item it is given.                                                       *)
(***************************************************************************)
\* item.GetString(fieldName)
FieldString(h, item, fieldName) == SmartGet("GetString", h, item, <<StrV(fieldName)>>).s

Predicates == {"always", "never", "isObject", "aIsB", "hasB"}

\* matchFn(item), filterFn(item)
ApplyPredicate(p, h, item) ==
    CASE p = "always" -> TRUE
      [] p = "never" -> FALSE
      [] p = "isObject" -> IsObject(item)
      [] p = "aIsB" -> FieldString(h, item, <<"a">>) = <<"b">>
      [] p = "hasB" -> ~IsNull(Get(h, item, StrV(<<"b">>)))

MapFns == {"raw", "pluckA", "stringA", "one"}

\* mapFn(item)
ApplyMapFn(f, h, item) ==
    CASE f = "raw" -> item
      [] f = "pluckA" -> Get(h, item, StrV(<<"a">>))
      [] f = "stringA" -> StrV(FieldString(h, item, <<"a">>))
      [] f = "one" -> IntV(1)

\* var out []interface{}; for ... { out = append(out, val) }
RECURSIVE AppendEach(_, _, _)
AppendEach(h, s, vals) ==
    IF vals = <<>> THEN [h |-> h, v |-> s]
    ELSE AppendEach(AppendSlice(h, s, <<Head(vals)>>).h,
                    AppendSlice(h, s, <<Head(vals)>>).v, Tail(vals))

\* The items the loop of FilterArray appends.
RECURSIVE Passing(_, _, _)
Passing(h, items, p) ==
    IF items = <<>> THEN <<>>
    ELSE (IF ApplyPredicate(p, h, Head(items)) THEN <<Head(items)>> ELSE <<>>)
         \o Passing(h, Tail(items), p)

\* FilterArray that appends the items the predicate rejects.
FilterArrayInverted(h, v, p) ==
    IF ~IsArray(v) THEN MakeSlice(h)
    ELSE AppendEach(h, NilSlice,
                    SelectSeq(AsArray(h, v), LAMBDA x : ~ApplyPredicate(p, h, x)))

\* FilterArray
FilterArray(h, v, p) ==
    IF ~IsArray(v) THEN MakeSlice(h)
    ELSE AppendEach(h, NilSlice, Passing(h, AsArray(h, v), p))

\* MapArray
MapArray(h, v, f) ==
    IF ~IsArray(v) THEN MakeSlice(h)
    ELSE AppendEach(h, NilSlice,
                    [i \in 1..Len(AsArray(h, v)) |-> ApplyMapFn(f, h, AsArray(h, v)[i])])

RECURSIVE FindFirst(_, _, _)
FindFirst(h, items, p) ==
    IF items = <<>> THEN Null
    ELSE IF ApplyPredicate(p, h, Head(items)) THEN Head(items)
    ELSE FindFirst(h, Tail(items), p)

\* FindInArray
FindInArray(h, v, p) == IF ~IsArray(v) THEN Null ELSE FindFirst(h, AsArray(h, v), p)

\* The callback of FindByField: the field coerced to the type of `value`
\* and compared with it; false for a value of another type.
FieldEquals(h, item, fieldName, value) ==
    LET field == Get(h, item, StrV(fieldName))
    IN  CASE value.t = "str" -> AsString(h, field) = value.s
          [] value.t = "int" -> AsInt(field) = value.n
          [] value.t = "bool" -> AsBool(field) = value.b
          [] value.t = "num" -> AsFloat(field) = value.n
          [] OTHER -> FALSE

RECURSIVE FindFirstByField(_, _, _, _)
FindFirstByField(h, items, fieldName, value) ==
    IF items = <<>> THEN Null
    ELSE IF FieldEquals(h, Head(items), fieldName, value) THEN Head(items)
    ELSE FindFirstByField(h, Tail(items), fieldName, value)

\* FindByField
FindByField(h, v, fieldName, value) ==
    IF ~IsArray(v) THEN Null ELSE FindFirstByField(h, AsArray(h, v), fieldName, value)

\* groups[key] = append(groups[key], item), for each item in turn.
RECURSIVE GroupItems(_, _, _, _)
GroupItems(h, items, fieldName, groups) ==
    IF items = <<>> THEN groups
    ELSE LET key == FieldString(h, Head(items), fieldName)
             old == IF key \in DOMAIN groups THEN groups[key] ELSE <<>>
         IN  GroupItems(h, Tail(items), fieldName,
                        [k \in DOMAIN groups \cup {key} |->
                            IF k = key THEN Append(old, Head(items)) ELSE groups[k]])

\* GroupBy that keeps only the last item of each group.
GroupByLastOnly(h, v, fieldName) ==
    LET g == GroupItems(h, AsArray(h, v), fieldName, EmptyMap)
    IN  [k \in DOMAIN g |-> <<g[k][Len(g[k])]>>]

\* GroupBy: the map from key to the data of the items in the group.
GroupBy(h, v, fieldName) ==
    IF ~IsArray(v) THEN EmptyMap ELSE GroupItems(h, AsArray(h, v), fieldName, EmptyMap)

\* The inner loop of SortBy, j (from 1) up to lim: neighbours are swapped
\* when the first one's key is greater.
RECURSIVE BubblePass(_, _, _, _, _)
BubblePass(h, sorted, j, lim, fieldName) ==
    IF j > lim THEN sorted
    ELSE BubblePass(h,
                    IF StrLess(FieldString(h, sorted[j + 1], fieldName),
                               FieldString(h, sorted[j], fieldName))
                    THEN [sorted EXCEPT ![j] = sorted[j + 1], ![j + 1] = sorted[j]]
                    ELSE sorted,
                    j + 1, lim, fieldName)

\* The outer loop of SortBy, i from 0 while i < n-1.
RECURSIVE BubbleSort(_, _, _, _)
BubbleSort(h, sorted, i, fieldName) ==
    IF i >= Len(sorted) - 1 THEN sorted
    ELSE BubbleSort(h, BubblePass(h, sorted, 1, Len(sorted) - i - 1, fieldName),
                    i + 1, fieldName)

\* SortBy that makes one pass only.
SortBySinglePass(h, v, fieldName) ==
    IF ~IsArray(v) THEN MakeSlice(h)
    ELSE AppendEach(h, NilSlice,
                    BubblePass(h, AsArray(h, v), 1, Len(AsArray(h, v)) - 1, fieldName))

\* SortBy
SortBy(h, v, fieldName) ==
    IF ~IsArray(v) THEN MakeSlice(h)
    ELSE AppendEach(h, NilSlice, BubbleSort(h, AsArray(h, v), 0, fieldName))

\* The items Unique appends: those whose String() has not been seen.
RECURSIVE FirstOfEach(_, _, _)
FirstOfEach(h, items, seen) ==
    IF items = <<>> THEN <<>>
    ELSE IF Dumps(h, Head(items)) \in seen THEN FirstOfEach(h, Tail(items), seen)
    ELSE <<Head(items)>> \o FirstOfEach(h, Tail(items), seen \cup {Dumps(h, Head(items))})

\* Unique
Unique(h, v) ==
    IF ~IsArray(v) THEN MakeSlice(h)
    ELSE AppendEach(h, NilSlice, FirstOfEach(h, AsArray(h, v), {}))

\* JSONValue.Len; a string's length is its number of bytes.
LenOf(h, v) ==
    CASE v.t = "map" -> Cardinality(DOMAIN h.maps[v.id])
      [] v.t = "slice" -> v.len
      [] v.t = "str" -> Len(v.s)
      [] OTHER -> 0

\* Take
Take(h, v, n) ==
    IF ~IsArray(v) THEN MakeSlice(h)
    ELSE LET m == IF n > LenOf(h, v) THEN LenOf(h, v) ELSE n
         IN  AppendEach(h, NilSlice, [i \in 1..m |-> Get(h, v, IntV(i - 1))])

\* Skip
Skip(h, v, n) ==
    IF ~IsArray(v) THEN MakeSlice(h)
    ELSE IF n >= LenOf(h, v) THEN MakeSlice(h)
    ELSE AppendEach(h, NilSlice,
                    [k \in 1..(LenOf(h, v) - n) |-> Get(h, v, IntV(n + k - 1))])

(***************************************************************************)
(* Loads: encoding/json's strict parser, character by character.  The      *)
(* texts of the model never have '.', 'e' or 'E' right after a digit, so   *)
(* numbers are integers; a \u escape decodes to one stand-in character.    *)
(***************************************************************************)
WhiteSpace == {" ", "\t", "\n", "\r"}

HexChars == DigitChars \cup {"a", "b", "c", "d", "e", "f", "A", "B", "C", "D", "E", "F"}

\* The two errors of the decoder: a character that cannot come next
\* ("invalid character ..."), and a text that stops before the value is
\* complete ("unexpected end of JSON input").
ParseFail == [ok |-> FALSE, i |-> 0, v |-> JNull, end |-> FALSE]

ParseEnd == [ok |-> FALSE, i |-> 0, v |-> JNull, end |-> TRUE]

RECURSIVE SkipWs(_, _)
SkipWs(s, i) == IF i <= Len(s) /\ s[i] \in WhiteSpace THEN SkipWs(s, i + 1) ELSE i

\* strings.HasPrefix(s[i-1:], word)
HasPrefixAt(s, i, word) ==
    /\ i + Len(word) - 1 <= Len(s)
    /\ SubSeq(s, i, i + Len(word) - 1) = word

\* The text stops inside the literal `word` it has begun at position i.
CutShort(s, i, word) ==
    /\ Len(s) - i + 1 < Len(word)
    /\ SubSeq(s, i, Len(s)) = SubSeq(word, 1, Len(s) - i + 1)

\* The character a one-letter escape stands for.
Unescape(c) ==
    CASE c = "b" -> "\\b"
      [] c = "f" -> "\f"
      [] c = "n" -> "\n"
      [] c = "r" -> "\r"
      [] c = "t" -> "\t"
      [] OTHER -> c

\* The rest of a string literal whose opening quote has been read.
RECURSIVE ParseString(_, _, _)
ParseString(s, i, acc) ==
    IF i > Len(s) THEN ParseEnd
    ELSE IF s[i] = "\"" THEN [ok |-> TRUE, i |-> i + 1, v |-> JStr(acc)]
    ELSE IF s[i] = "\\" THEN
        IF i + 1 > Len(s) THEN ParseEnd
        ELSE IF s[i + 1] \in {"\"", "\\", "/", "b", "f", "n", "r", "t"} THEN
            ParseString(s, i + 2, Append(acc, Unescape(s[i + 1])))
        ELSE IF s[i + 1] = "u" /\ i + 5 <= Len(s)
                /\ \A j \in (i + 2)..(i + 5) : s[j] \in HexChars THEN
            ParseString(s, i + 6, Append(acc, "\\u"))
        ELSE IF s[i + 1] = "u" /\ i + 5 > Len(s)
                /\ \A j \in (i + 2)..Len(s) : s[j] \in HexChars THEN ParseEnd
        ELSE ParseFail
    ELSE IF s[i] \in {"\t", "\n", "\r", "\f", "\\b"} THEN ParseFail
    ELSE ParseString(s, i + 1, Append(acc, s[i]))

RECURSIVE DigitsEnd(_, _)
DigitsEnd(s, i) == IF i <= Len(s) /\ s[i] \in DigitChars THEN DigitsEnd(s, i + 1) ELSE i

\* A number: an optional minus, then 0 or a digit string without leading 0.
ParseNumber(s, i) ==
    LET neg == s[i] = "-"
        d == IF neg THEN i + 1 ELSE i
    IN  IF d > Len(s) THEN ParseEnd
        ELSE IF s[d] \notin DigitChars THEN ParseFail
        ELSE IF s[d] = "0" THEN [ok |-> TRUE, i |-> d + 1, v |-> JNum(0)]
        ELSE LET n == DigitsValue(SubSeq(s, d, DigitsEnd(s, d) - 1), 0)
             IN  [ok |-> TRUE, i |-> DigitsEnd(s, d), v |-> JNum(IF neg THEN 0 - n ELSE n)]

RECURSIVE ParseValue(_, _)
RECURSIVE ParseElems(_, _, _)
RECURSIVE ParseMembers(_, _, _)

\* The value that starts at or after position i0, and where it ends.
ParseValue(s, i0) ==
    LET i == SkipWs(s, i0)
    IN  IF i > Len(s) THEN ParseEnd
        ELSE IF s[i] = "{" THEN
            IF SkipWs(s, i + 1) <= Len(s) /\ s[SkipWs(s, i + 1)] = "}" THEN
                [ok |-> TRUE, i |-> SkipWs(s, i + 1) + 1, v |-> JObj(EmptyMap)]
            ELSE ParseMembers(s, i + 1, EmptyMap)
        ELSE IF s[i] = "[" THEN
            IF SkipWs(s, i + 1) <= Len(s) /\ s[SkipWs(s, i + 1)] = "]" THEN
                [ok |-> TRUE, i |-> SkipWs(s, i + 1) + 1, v |-> JArr(<<>>)]
            ELSE ParseElems(s, i + 1, <<>>)
        ELSE IF s[i] = "\"" THEN ParseString(s, i + 1, <<>>)
        ELSE IF s[i] = "-" \/ s[i] \in DigitChars THEN ParseNumber(s, i)
        ELSE IF HasPrefixAt(s, i, sTrue) THEN [ok |-> TRUE, i |-> i + 4, v |-> JBool(TRUE)]
        ELSE IF HasPrefixAt(s, i, sFalse) THEN [ok |-> TRUE, i |-> i + 5, v |-> JBool(FALSE)]
        ELSE IF HasPrefixAt(s, i, sNull) THEN [ok |-> TRUE, i |-> i + 4, v |-> JNull]
        ELSE IF \E word \in {sTrue, sFalse, sNull} : CutShort(s, i, word) THEN ParseEnd
        ELSE ParseFail

\* The elements of an array after '[' or ',': a value, then ',' or ']'.
ParseElems(s, i, acc) ==
    LET r == ParseValue(s, i)
        j == SkipWs(s, r.i)
    IN  IF ~r.ok THEN r
        ELSE IF j > Len(s) THEN ParseEnd
        ELSE IF s[j] = "," THEN ParseElems(s, j + 1, Append(acc, r.v))
        ELSE IF s[j] = "]" THEN [ok |-> TRUE, i |-> j + 1, v |-> JArr(Append(acc, r.v))]
        ELSE ParseFail

\* The members of an object after '{' or ',': a string, ':', a value, then
\* ',' or '}'.  A repeated key keeps its last value.
ParseMembers(s, i, m) ==
    LET j == SkipWs(s, i)
        k == IF j > Len(s) THEN ParseEnd
             ELSE IF s[j] = "\"" THEN ParseString(s, j + 1, <<>>)
             ELSE ParseFail
        c == SkipWs(s, k.i)
        r == IF ~k.ok THEN k
             ELSE IF c > Len(s) THEN ParseEnd
             ELSE IF s[c] = ":" THEN ParseValue(s, c + 1)
             ELSE ParseFail
        d == SkipWs(s, r.i)
        m2 == [x \in DOMAIN m \cup {k.v.s} |-> IF x = k.v.s THEN r.v ELSE m[x]]
    IN  IF ~r.ok THEN r
        ELSE IF d > Len(s) THEN ParseEnd
        ELSE IF s[d] = "," THEN ParseMembers(s, d + 1, m2)
        ELSE IF s[d] = "}" THEN [ok |-> TRUE, i |-> d + 1, v |-> JObj(m2)]
        ELSE ParseFail

ErrEnd == "unexpected end of JSON input"
ErrChar == "invalid character"

\* Loads: the document, or an error when the text is not exactly one value.
Loads(s) ==
    LET r == ParseValue(s, 1)
    IN  IF r.ok /\ SkipWs(s, r.i) > Len(s) THEN [ok |-> TRUE, doc |-> r.v, err |-> NoErr]
        ELSE IF ~r.ok /\ r.end THEN [ok |-> FALSE, doc |-> JNull, err |-> ErrEnd]
        ELSE [ok |-> FALSE, doc |-> JNull, err |-> ErrChar]

(***************************************************************************)
(* safe_parsing.go                                                         *)
(***************************************************************************)
\* strings.ReplaceAll(s, old, new), old not empty.
RECURSIVE ReplaceAll(_, _, _)
ReplaceAll(s, old, new) ==
    IF s = <<>> THEN <<>>
    ELSE IF HasPrefixAt(s, 1, old) THEN
        new \o ReplaceAll(SubSeq(s, Len(old) + 1, Len(s)), old, new)
    ELSE <<Head(s)>> \o ReplaceAll(Tail(s), old, new)

\* strings.Contains(s, c) for a one-character c.
ContainsChar(s, c) == \E i \in 1..Len(s) : s[i] = c

\* strings.Contains(s, sub), sub not empty.
Contains(s, sub) == \E i \in 1..Len(s) : HasPrefixAt(s, i, sub)

sPyTrue == <<"T", "r", "u", "e">>
sPyFalse == <<"F", "a", "l", "s", "e">>
sPyNone == <<"N", "o", "n", "e">>

\* FixCommonIssues
FixCommonIssues(s) ==
    LET fixed == ReplaceAll(ReplaceAll(ReplaceAll(s, sPyTrue, sTrue), sPyFalse, sFalse),
                            sPyNone, sNull)
    IN  IF ~ContainsChar(fixed, "\"") /\ ContainsChar(fixed, "'")
        THEN ReplaceAll(fixed, <<"'">>, <<"\"">>)
        ELSE fixed

\* if data, err := Loads(jsonStr); err == nil { return data, nil }; return retry
FirstParsed(data, retry) == IF data.ok THEN data ELSE retry

\* ParseWithFixes
ParseWithFixes(s) == FirstParsed(Loads(s), Loads(FixCommonIssues(s)))

RECURSIVE TrimLeft(_)
TrimLeft(s) == IF s # <<>> /\ Head(s) \in WhiteSpace THEN TrimLeft(Tail(s)) ELSE s

RECURSIVE TrimRight(_)
TrimRight(s) ==
    IF s # <<>> /\ s[Len(s)] \in WhiteSpace THEN TrimRight(SubSeq(s, 1, Len(s) - 1)) ELSE s

\* strings.TrimSpace
TrimSpace(s) == TrimRight(TrimLeft(s))

\* The scanning loop of ParseLenient, from the i-th character on: the value
\* of `end` when the loop is over.  The break in the code leaves the switch
\* only, so the loop runs to the end of the text.
RECURSIVE ScanEnd(_, _, _, _, _, _)
ScanEnd(s, i, depth, inString, escaped, end) ==
    IF i > Len(s) THEN end
    ELSE IF s[i] = "\\" THEN ScanEnd(s, i + 1, depth, inString, ~escaped, end)
    ELSE IF s[i] = "\"" THEN
        ScanEnd(s, i + 1, depth, IF escaped THEN inString ELSE ~inString, FALSE, end)
    ELSE IF s[i] \in {"{", "["} THEN
        ScanEnd(s, i + 1, IF inString THEN depth ELSE depth + 1, inString, FALSE, end)
    ELSE IF s[i] \in {"}", "]"} THEN
        IF inString THEN ScanEnd(s, i + 1, depth, inString, FALSE, end)
        ELSE ScanEnd(s, i + 1, depth - 1, inString, FALSE,
                     IF depth - 1 = 0 THEN i ELSE end)
    ELSE ScanEnd(s, i + 1, depth, inString, FALSE, end)

\* Strategy 3 of ParseLenient: the text cut where the scan says the
\* structure ends, parsed strictly.
Extract(s) ==
    LET trimmed == TrimSpace(s)
        end == ScanEnd(trimmed, 1, 0, FALSE, FALSE, 0)
    IN  IF trimmed # <<>> /\ trimmed[1] \in {"{", "["} /\ end > 0
        THEN Loads(SubSeq(trimmed, 1, end))
        ELSE [ok |-> FALSE, doc |-> JNull]

\* The strategies of ParseLenient in their order, given what each parse
\* returns: the document returned and the strategy that returned it.
FirstStrategy(strict, fixed, extracted) ==
    IF strict.ok THEN [doc |-> strict.doc, by |-> "strict"]
    ELSE IF fixed.ok THEN [doc |-> fixed.doc, by |-> "fixes"]
    ELSE IF extracted.ok THEN [doc |-> extracted.doc, by |-> "extract"]
    ELSE [doc |-> JObj(EmptyMap), by |-> "empty"]

\* ParseLenient without its second strategy.
ParseLenientWithoutFixes(s) ==
    FirstStrategy(Loads(s), [ok |-> FALSE, doc |-> JNull], Extract(s))

\* ParseLenient
ParseLenient(s) == FirstStrategy(Loads(s), ParseWithFixes(s), Extract(s))

SuggestTruncated == "JSON appears to be truncated - check if the string is complete"
SuggestEscapes == "Check for unescaped quotes or special characters"
SuggestQuoted == "Verify all strings are properly quoted"
SuggestLowercase == "Use lowercase 'true'/'false' instead of 'True'/'False'"
SuggestNull == "Use 'null' instead of 'None'"
SuggestDoubleQuotes == "Use double quotes (\") instead of single quotes (')"
SuggestReader == "Check if the reader is valid and contains data"
SuggestSource == "Use string, []byte, or io.Reader as source"

\* The suggestions ParseSafely derives from the error text and from the
\* text it was given.  Decoding into an interface{} never gives a "cannot
\* unmarshal" error.
Suggestions(err, s) ==
    (IF err = ErrEnd THEN <<SuggestTruncated>> ELSE <<>>)
    \o (IF err = ErrChar THEN <<SuggestEscapes, SuggestQuoted>> ELSE <<>>)
    \o (IF /\ Contains(ToLower(s), sTrue) \/ Contains(ToLower(s), sFalse)
           /\ Contains(s, sPyTrue) \/ Contains(s, sPyFalse)
        THEN <<SuggestLowercase>> ELSE <<>>)
    \o (IF Contains(s, sPyNone) THEN <<SuggestNull>> ELSE <<>>)
    \o (IF ContainsChar(s, "'") /\ ~ContainsChar(s, "\"")
        THEN <<SuggestDoubleQuotes>> ELSE <<>>)

\* The ParseResult for what Loads returned: its Data, Error and Suggestions.
ParseResult(data, s) ==
    IF data.ok THEN [doc |-> data.doc, err |-> NoErr, suggestions |-> <<>>]
    ELSE [doc |-> JObj(EmptyMap), err |-> data.err,
          suggestions |-> Suggestions(data.err, s)]

\* ParseSafely that repairs the text before it gives up.
ParseSafelyRepairs(s) == ParseResult(ParseWithFixes(s), s)

\* ParseSafely
ParseSafely(s) == ParseResult(Loads(s), s)

ErrRead == "failed to read from source"
ErrSource == "unsupported source type"

\* ParseSafelyFrom: a source is a string, a []byte, an io.Reader (whose
\* ReadAll gives the text or an error) or a value of another type.
ParseSafelyFrom(source) ==
    IF source.kind \notin {"string", "bytes", "reader"}
    THEN [doc |-> JObj(EmptyMap), err |-> ErrSource, suggestions |-> <<SuggestSource>>]
    ELSE IF source.kind = "reader" /\ source.fails
    THEN [doc |-> JObj(EmptyMap), err |-> ErrRead, suggestions |-> <<SuggestReader>>]
    ELSE ParseSafely(source.text)

sDev == <<"d", "e", "v">>
sDevelopment == <<"d", "e", "v", "e", "l", "o", "p", "m", "e", "n", "t">>

\* isDevelopment, env being the value of GO_ENV.
IsDevelopmentAlways(env) == TRUE

isDevelopment(env) == ToLower(env) \in {sEmpty, sDevelopment, sDev}

\* MustParse after Loads has returned: a panic, or the document returned.
MustLoaded(data, env) ==
    IF data.ok THEN [panic |-> FALSE, doc |-> data.doc]
    ELSE IF isDevelopment(env) THEN [panic |-> TRUE, doc |-> JNull]
    ELSE [panic |-> FALSE, doc |-> JObj(EmptyMap)]

\* MustParse
MustParse(s, env) == MustLoaded(Loads(s), env)

\* MustParseFrom after ParseSafelyFrom has returned.
MustResult(result, env) ==
    IF result.err # NoErr /\ isDevelopment(env) THEN [panic |-> TRUE, doc |-> JNull]
    ELSE [panic |-> FALSE, doc |-> result.doc]

\* MustParseFrom
MustParseFrom(source, env) == MustResult(ParseSafelyFrom(source), env)

\* TryParse after Loads has returned.
TryLoaded(data) ==
    IF data.ok THEN [doc |-> data.doc, ok |-> TRUE]
    ELSE [doc |-> JObj(EmptyMap), ok |-> FALSE]

\* TryParse
TryParse(s) == TryLoaded(Loads(s))

\* ParseOrDefault after Loads has returned.
LoadedOr(data, defaultValue) == IF data.ok THEN data.doc ELSE defaultValue

\* ParseOrDefault, the default being a document of the caller's.
ParseOrDefault(s, defaultValue) == LoadedOr(Loads(s), defaultValue)

\* ValidateJSON
ValidateJSON(s) == Loads(s).ok

(***************************************************************************)
(* suggestions.go: a JSONSuggester holds the document, the number of       *)
(* accesses of each path and the history of the accesses.  A similarity    *)
(* is a fraction, kept as numerator and denominator.                       *)
(***************************************************************************)
\* make(map[string]int)
NoCounts == [p \in {} |-> 0]

\* WithSuggestions: nothing accessed yet.
WithSuggestions == [commonPaths |-> NoCounts, history |-> <<>>]

commonPatterns ==
    <<
      <<"d", "a", "t", "a">>,
      <<"r", "e", "s", "u", "l", "t">>,
      <<"r", "e", "s", "u", "l", "t", "s">>,
      <<"i", "t", "e", "m", "s">>,
      <<"l", "i", "s", "t">>,
      <<"p", "a", "y", "l", "o", "a", "d">>,
      <<"u", "s", "e", "r">>,
      <<"u", "s", "e", "r", "s">>,
      <<"p", "r", "o", "f", "i", "l", "e">>,
      <<"a", "c", "c", "o", "u", "n", "t">>,
      <<"u", "s", "e", "r", ".", "n", "a", "m", "e">>,
      <<"u", "s", "e", "r", ".", "e", "m", "a", "i", "l">>,
      <<"u", "s", "e", "r", ".", "i", "d">>,
      <<"u", "s", "e", "r", ".", "p", "r", "o", "f", "i", "l", "e">>,
      <<"s", "t", "a", "t", "u", "s">>,
      <<"m", "e", "s", "s", "a", "g", "e">>,
      <<"e", "r", "r", "o", "r">>,
      <<"e", "r", "r", "o", "r", "s">>,
      <<"s", "u", "c", "c", "e", "s", "s">>,
      <<"p", "a", "g", "e">>,
      <<"t", "o", "t", "a", "l">>,
      <<"l", "i", "m", "i", "t">>,
      <<"c", "o", "u", "n", "t">>,
      <<"o", "f", "f", "s", "e", "t">>,
      <<"c", "r", "e", "a", "t", "e", "d", "_", "a", "t">>,
      <<"u", "p", "d", "a", "t", "e", "d", "_", "a", "t">>,
      <<"t", "i", "m", "e", "s", "t", "a", "m", "p">>,
      <<"d", "a", "t", "e">>,
      <<"s", "e", "t", "t", "i", "n", "g", "s">>,
      <<"c", "o", "n", "f", "i", "g">>,
      <<"p", "r", "e", "f", "e", "r", "e", "n", "c", "e", "s">>,
      <<"s", "e", "t", "t", "i", "n", "g", "s", ".", "t", "h", "e", "m", "e">>,
      <<"s", "e", "t", "t", "i", "n", "g", "s", ".", "l", "a", "n", "g", "u", "a", "g", "e">>,
      <<"s", "e", "t", "t", "i", "n", "g", "s", ".", "n", "o", "t", "i", "f", "i", "c", "a", "t", "i", "o", "n", "s">>,
      <<"m", "e", "t", "a">>,
      <<"m", "e", "t", "a", "d", "a", "t", "a">>,
      <<"i", "n", "f", "o">>,
      <<"i", "d">>,
      <<"n", "a", "m", "e">>,
      <<"t", "i", "t", "l", "e">>,
      <<"d", "e", "s", "c", "r", "i", "p", "t", "i", "o", "n">>,
      <<"t", "y", "p", "e">>
    >>

\* addNestedSuggestions: the paths it adds, to maxDepth levels of objects.
RECURSIVE addNestedSuggestions(_, _, _, _)
addNestedSuggestions(h, v, prefix, depth) ==
    IF depth <= 0 \/ ~IsObject(v) THEN {}
    ELSE UNION {
            LET path == IF prefix # <<>> THEN prefix \o <<".">> \o key ELSE key
            IN  {path} \cup
                addNestedSuggestions(h, Get(h, v, StrV(key)), path, depth - 1) :
            key \in Keys(h, v)}

\* SuggestPaths: the paths of the slice it returns.  No path is in the slice
\* twice; their order follows the iteration of Go maps and a sort that is
\* not stable.
SuggestPaths(h, v) ==
    {commonPatterns[i] : i \in {j \in DOMAIN commonPatterns :
                                   ~IsNull(Path(h, v, commonPatterns[j]))}}
    \cup (IF IsObject(v) THEN Keys(h, v) ELSE {})
    \cup addNestedSuggestions(h, v, <<>>, 2)

\* min returns the minimum of three integers
min(a, b, c) == IF a < b /\ a < c THEN a ELSE IF b < c THEN b ELSE c

\* matrix[i] given matrix[i-1] (prev) and the cells matrix[i][0..j-1] filled so
\* far (row); c is s1[i-1].  Each cell is computed once.
RECURSIVE levenshteinRow(_, _, _, _)
levenshteinRow(prev, row, c, s2) ==
    IF Len(row) > Len(s2) THEN row
    ELSE CHOOSE filled \in
            {levenshteinRow(prev, Append(row, cell), c, s2) :
               cell \in {min(prev[Len(row) + 1] + 1,
                             row[Len(row)] + 1,
                             prev[Len(row)] + (IF c # s2[Len(row)] THEN 1 ELSE 0))}} :
            TRUE

\* matrix[len(s1)] given matrix[i-1] (prev).  Each row is computed once.
RECURSIVE levenshteinRows(_, _, _, _)
levenshteinRows(s1, s2, i, prev) ==
    IF i > Len(s1) THEN prev
    ELSE CHOOSE matrix \in
            {levenshteinRows(s1, s2, i + 1, row) :
               row \in {levenshteinRow(prev, <<i>>, s1[i], s2)}} :
            TRUE

levenshteinDistance(s1, s2) ==
    IF Len(s1) = 0 THEN Len(s2)
    ELSE IF Len(s2) = 0 THEN Len(s1)
    ELSE levenshteinRows(s1, s2, 1, [j \in 1..(Len(s2) + 1) |-> j - 1])[Len(s2) + 1]

Fraction(n, d) == [num |-> n, den |-> d]

\* x > y for fractions of positive denominator
Above(x, y) == x.num * y.den > y.num * x.den

similarityOfDistance(s1, s2) ==
    LET longer == IF Len(s1) < Len(s2) THEN s2 ELSE s1
        shorter == IF Len(s1) < Len(s2) THEN s1 ELSE s2
    IN  IF Len(longer) = 0 THEN Fraction(1, 1)
        ELSE Fraction(Len(longer) - levenshteinDistance(longer, shorter), Len(longer))

similarity(s1, s2) == IF s1 = s2 THEN Fraction(1, 1) ELSE similarityOfDistance(s1, s2)

\* 0.6
similarityThreshold == Fraction(6, 10)

\* Mutation of IsSimilar: the threshold itself is similar enough.
IsSimilarOrEqual(path, validPath) ==
    ~Above(similarityThreshold, similarity(path, validPath))

\* if similarity(path, validPath) > 0.6
IsSimilar(path, validPath) == Above(similarity(path, validPath), similarityThreshold)

\* sort.Slice(suggestions, simI > simJ): the orders it can leave the paths in.
RECURSIVE SortedBySimilarity(_, _)
SortedBySimilarity(path, paths) ==
    IF paths = {} THEN {<<>>}
    ELSE UNION {{<<p>> \o q : q \in SortedBySimilarity(path, paths \ {p})} :
                p \in {x \in paths :
                          \A y \in paths :
                             ~Above(similarity(path, y), similarity(path, x))}}

maxSuggestions == 5

\* suggestions[:5] when there are more
TopSuggestions(q) == IF Len(q) > maxSuggestions THEN SubSeq(q, 1, maxSuggestions) ELSE q

historyLimit == 100

historyKept == 50

\* trackAccess
trackAccess(s, path) ==
    LET counted == IF path \in DOMAIN s.commonPaths
                     THEN [s.commonPaths EXCEPT ![path] = @ + 1]
                     ELSE s.commonPaths @@ (path :> 1)
        history == Append(s.history, path)
    IN  [commonPaths |-> counted,
         history |-> IF Len(history) > historyLimit
                       THEN SubSeq(history, historyKept + 1, Len(history))
                       ELSE history]

\* ValidatePathWithSuggestions: what it can return, and the suggester after.
ValidatePathWithSuggestions(h, v, s, path) ==
    IF ~IsNull(Path(h, v, path))
      THEN {[valid |-> TRUE, suggestions |-> <<>>, js |-> trackAccess(s, path)]}
      ELSE {[valid |-> FALSE, suggestions |-> TopSuggestions(q), js |-> s] :
            q \in SortedBySimilarity(path,
                     {p \in SuggestPaths(h, v) : IsSimilar(path, p)})}

(***************************************************************************)
(* Inputs of the model.                                                    *)
(***************************************************************************)
sA == <<"a">>
sB == <<"b">>
s0 == <<"0">>
s1 == <<"1">>
sMinus1 == <<"-", "1">>
sDot == <<".">>

\* {"a": {"b": "1", "0": true}, "b": [{"a": "b"}, 2, null]}
DocNested ==
    JObj((sA :> JObj((sB :> JStr(s1)) @@ (s0 :> JBool(TRUE))))
         @@ (sB :> JArr(<<JObj(sA :> JStr(sB)), JNum(2), JNull>>)))

\* {"0": "a", "a": null, "b": "True"}
DocDigits ==
    JObj((s0 :> JStr(sA)) @@ (sA :> JNull) @@ (sB :> JStr(<<"T", "r", "u", "e">>)))

\* [{"a": 0}, [false, "a"], "b"]
DocArray == JArr(<<JObj(sA :> JNum(0)), JArr(<<JBool(FALSE), JStr(sA)>>), JStr(sB)>>)

Docs == {DocNested, DocDigits, DocArray, JStr(sA), JNum(1), JNull, JObj(EmptyMap)}

\* The Go values a caller passes as a key or as a trailing default.
KeyArgs ==
    {StrV(sA), StrV(sB), StrV(s0), IntV(0), IntV(1), IntV(-1), IntV(3),
     BoolV(TRUE), FloatV(0)}

RECURSIVE SeqsUpTo(_, _)
SeqsUpTo(S, n) ==
    IF n = 0 THEN {<<>>}
    ELSE SeqsUpTo(S, n - 1) \cup
         {Append(q, x) : q \in {p \in SeqsUpTo(S, n - 1) : Len(p) = n - 1}, x \in S}

KeySeqs == SeqsUpTo(KeyArgs, MaxKeys)

\* Path segments; the empty one gives paths such as "", "a..b" and "a.".
Segments == {sA, sB, s0, s1, sMinus1, sEmpty}

PathArgs == {JoinWith(p, sDot) : p \in SeqsUpTo(Segments, MaxSegs) \ {<<>>}}

TryCandidates ==
    {sA, s0, sA \o sDot \o sB, sB \o sDot \o s0, sB \o sDot \o s0 \o sDot \o sA,
     sA \o sDot \o sA}

Getters == {"GetString", "GetInt", "GetBool", "GetFloat"}

Wrappers == {"orig", "clone", "w1", "w2"}

(***************************************************************************)
(* The state: the heap of maps and backing arrays, the data field of each  *)
(* wrapper, the root each wrapper was derived from, the last call and its  *)
(* outcome, and the text handed to the parsing functions.                  *)
(***************************************************************************)
NoCall == [op |-> "none"]

InitFrom(docs) ==
    /\ \E d \in docs :
          /\ heap = Unmarshal(EmptyHeap, d).h
          /\ jv = [w \in Wrappers |->
                      IF w = "orig" THEN Unmarshal(EmptyHeap, d).v ELSE Absent]
    /\ fam = [w \in Wrappers |-> IF w = "clone" THEN "clone" ELSE "orig"]
    /\ last = NoCall
    /\ nops = 0
    /\ jsonStr = <<>>
    /\ js = WithSuggestions

Init == InitFrom(Docs)

(***************************************************************************)
(* Read-only calls on the root wrapper.                                    *)
(***************************************************************************)
\* The caller is sequential: it makes a call, looks at the outcome, and only
\* then makes the next one.
Idle == last = NoCall

Reads(call) ==
    /\ last' = call
    /\ UNCHANGED <<heap, jv, fam, nops, jsonStr, js>>

\* The last call panicked: the process is over.
Aborted == "panic" \in DOMAIN last /\ last.panic

\* The caller is done with the outcome of the last call.
Return ==
    /\ ~Idle
    /\ ~Aborted
    /\ last' = NoCall
    /\ UNCHANGED <<heap, jv, fam, nops, jsonStr, js>>

CallGet ==
    /\ Idle
    /\ \E key \in KeyArgs :
           Reads([op |-> "Get", key |-> key, res |-> Get(heap, jv["orig"], key)])

CallQ ==
    /\ Idle
    /\ \E keys \in KeySeqs :
           Reads([op |-> "Q", keys |-> keys, res |-> Q(heap, jv["orig"], keys)])

CallPath ==
    /\ Idle
    /\ \E path \in PathArgs :
           Reads([op |-> "Path", path |-> path, res |-> Path(heap, jv["orig"], path)])

\* data.Path(path).AsString() and the other coercions of the path's result.
CallAs ==
    /\ Idle
    /\ \E path \in PathArgs :
           LET r == Path(heap, jv["orig"], path)
           IN  Reads([op |-> "As", path |-> path, res |-> r,
                      asString |-> AsString(heap, r), asInt |-> AsInt(r),
                      asFloat |-> AsFloat(r), asBool |-> AsBool(r),
                      asArray |-> AsArray(heap, r), asObject |-> AsObject(heap, r)])

CallSmartGet ==
    /\ Idle
    /\ \E getter \in Getters, keys \in KeySeqs :
           Reads([op |-> "SmartGet", getter |-> getter, keys |-> keys,
                  res |-> SmartGet(getter, heap, jv["orig"], keys)])

CallTryPaths ==
    /\ Idle
    /\ \E paths \in SeqsUpTo(TryCandidates, MaxPaths) :
           Reads([op |-> "TryPaths", paths |-> paths,
                  res |-> TryPaths(heap, jv["orig"], paths)])

NextNav ==
    \/ CallGet
    \/ CallQ
    \/ CallPath
    \/ CallAs
    \/ CallSmartGet
    \/ CallTryPaths
    \/ Return

SpecNav == Init /\ [][NextNav]_vars

(***************************************************************************)
(* Calls that create wrappers and calls that mutate.                       *)
(***************************************************************************)
\* The document that is mutated has a mapping and a sequence below its root;
\* calls on sequences are made through a wrapper of the nested one.
MutDocs == {DocNested}

MutKeys == {StrV(sA), IntV(0), IntV(3)}

GetKeys == {StrV(sA), StrV(sB), IntV(0)}

\* Arguments that are container literals are allocated by the caller.
NewMapArg == [t |-> "newmap"]

SetValues == {StrV(sA), NewMapArg}

AppendValues == {IntV(1)}

ExtendValues == {<<StrV(sB), IntV(1)>>}

\* {"b": "a", "0": {}} and []
UpdateDocs == {JObj((sB :> JStr(sA)) @@ (s0 :> JObj(EmptyMap))), JArr(<<>>)}

MutPaths ==
    {sA \o sDot \o sB, sB \o sDot \o s0, sA \o sDot \o sA \o sDot \o sB,
     sB \o sDot \o s1 \o sDot \o sA, s0 \o sDot \o sA, sA \o sDot \o s1 \o sDot \o s0}

Materialize(h, d) ==
    IF d.t = "newmap" THEN MakeMap(h) ELSE [h |-> h, v |-> d]

Present(w) == jv[w] # Absent

Mutators == {"Set", "Delete", "Append", "Extend", "Update", "SetPath"}

\* The caller makes at most MaxOps calls that change something, and takes
\* wrappers and clones only while it has such calls left to make.
MayMutate == Idle /\ nops < MaxOps

\* The heap after a call that was given the argument heap `argh`: what the
\* caller allocated for an argument is unreachable when the call stored
\* nothing, and is then left out.
After(argh, h) == IF h = argh THEN heap ELSE h

Counted(h, data) == IF h = heap /\ data = jv THEN nops ELSE nops + 1

\* w1 := src.Get(key)
DoGet ==
    /\ MayMutate
    /\ \E src \in Wrappers, key \in GetKeys :
           /\ Present(src)
           /\ jv' = [jv EXCEPT !["w1"] = Get(heap, jv[src], key)]
           /\ fam' = [fam EXCEPT !["w1"] = fam[src]]
           /\ UNCHANGED <<heap, last, nops, jsonStr, js>>

\* clone := orig.Clone()
DoClone ==
    /\ MayMutate
    /\ ~Present("clone")
    /\ heap' = Clone(heap, jv["orig"]).h
    /\ jv' = [jv EXCEPT !["clone"] = Clone(heap, jv["orig"]).v]
    /\ UNCHANGED <<fam, last, nops, jsonStr, js>>

CallSet ==
    /\ MayMutate
    /\ \E w \in Wrappers, key \in MutKeys, d \in SetValues :
           /\ Present(w)
           /\ LET arg == Materialize(heap, d)
                  r == SetVal(arg.h, jv[w], key, arg.v)
              IN  /\ heap' = After(arg.h, r.h)
                  /\ last' = [op |-> "Set", w |-> w, key |-> key, val |-> arg.v,
                              err |-> r.err]
                  /\ nops' = Counted(After(arg.h, r.h), jv)
           /\ UNCHANGED <<jv, fam, jsonStr, js>>

CallDelete ==
    /\ MayMutate
    /\ \E w \in Wrappers, key \in MutKeys :
           /\ Present(w)
           /\ LET r == DeleteVal(heap, jv[w], key)
              IN  /\ heap' = r.h
                  /\ jv' = [jv EXCEPT ![w] = r.v]
                  /\ last' = [op |-> "Delete", w |-> w, key |-> key, err |-> r.err]
                  /\ nops' = Counted(r.h, [jv EXCEPT ![w] = r.v])
           /\ UNCHANGED <<fam, jsonStr, js>>

CallAppend ==
    /\ MayMutate
    /\ \E w \in Wrappers, d \in AppendValues :
           /\ Present(w)
           /\ LET arg == Materialize(heap, d)
                  r == AppendVal(arg.h, jv[w], arg.v)
              IN  /\ heap' = After(arg.h, r.h)
                  /\ jv' = [jv EXCEPT ![w] = r.v]
                  /\ last' = [op |-> "Append", w |-> w, val |-> arg.v, err |-> r.err]
                  /\ nops' = Counted(After(arg.h, r.h), [jv EXCEPT ![w] = r.v])
           /\ UNCHANGED <<fam, jsonStr, js>>

CallExtend ==
    /\ MayMutate
    /\ \E w \in Wrappers, vals \in ExtendValues :
           /\ Present(w)
           /\ LET r == ExtendVal(heap, jv[w], vals)
              IN  /\ heap' = r.h
                  /\ jv' = [jv EXCEPT ![w] = r.v]
                  /\ last' = [op |-> "Extend", w |-> w, vals |-> vals, err |-> r.err]
                  /\ nops' = Counted(r.h, [jv EXCEPT ![w] = r.v])
           /\ UNCHANGED <<fam, jsonStr, js>>

\* w.Update(other), other being a value the caller has just parsed.
CallUpdate ==
    /\ MayMutate
    /\ \E w \in Wrappers, d \in UpdateDocs :
           /\ Present(w)
           /\ LET other == Unmarshal(heap, d)
                  r == UpdateVal(other.h, jv[w], other.v)
              IN  /\ heap' = After(other.h, r.h)
                  /\ last' = [op |-> "Update", w |-> w, other |-> other.v, err |-> r.err]
                  /\ nops' = Counted(After(other.h, r.h), jv)
           /\ UNCHANGED <<jv, fam, jsonStr, js>>

CallSetPath ==
    /\ MayMutate
    /\ \E w \in Wrappers, path \in MutPaths :
           /\ Present(w)
           /\ LET r == SetPath(heap, jv[w], path, StrV(sA))
              IN  /\ heap' = r.h
                  /\ last' = [op |-> "SetPath", w |-> w, path |-> path, val |-> StrV(sA),
                              err |-> r.err]
                  /\ nops' = Counted(r.h, jv)
           /\ UNCHANGED <<jv, fam, jsonStr, js>>

InitMut == InitFrom(MutDocs)

NextMut ==
    \/ DoGet
    \/ DoClone
    \/ CallSet
    \/ CallDelete
    \/ CallAppend
    \/ CallExtend
    \/ CallUpdate
    \/ CallSetPath
    \/ Return

SpecMut == InitMut /\ [][NextMut]_vars

(***************************************************************************)
(* Parsing: the caller hands a text to ParseLenient and keeps the wrapper  *)
(* it gets back.                                                           *)
(***************************************************************************)
\* {"a":1}
tObject == <<"{", "\"", "a", "\"", ":", "1", "}">>
\* {"a":"\"}"}
tEscaped == <<"{", "\"", "a", "\"", ":", "\"", "\\", "\"", "}", "\"", "}">>
\* ["]"]
tBracketInString == <<"[", "\"", "]", "\"", "]">>
\* [True]
tPython == <<"[", "T", "r", "u", "e", "]">>
\* {'a':None}
tSingleQuotes == <<"{", "'", "a", "'", ":", "N", "o", "n", "e", "}">>

\* The pieces a text is put together from: whole values, and characters
\* that make a text invalid or open and close structures on their own.
Pieces ==
    {tObject, tEscaped, tBracketInString, tPython, tSingleQuotes,
     <<"[", "1", "]">>, <<"[", "]">>, <<"{", "}">>, <<"\"", "a", "\"">>, <<"1">>,
     <<" ">>, <<"x">>, <<"{">>, <<"}">>, <<"]">>, <<"\"">>, <<"\\">>}

RECURSIVE Concat(_)
Concat(ps) == IF ps = <<>> THEN <<>> ELSE Head(ps) \o Concat(Tail(ps))

ParseInputs == {Concat(ps) : ps \in SeqsUpTo(Pieces, MaxPieces)}

\* orig = ParseLenient(jsonStr).  `by` records which return statement gave
\* the result.
CallParseLenient ==
    /\ Idle
    /\ \E r \in {ParseLenient(jsonStr)} :
           \E m \in {Unmarshal(EmptyHeap, r.doc)} :
               /\ heap' = m.h
               /\ jv' = [jv EXCEPT !["orig"] = m.v]
               /\ last' = [op |-> "ParseLenient", by |-> r.by, res |-> m.v]
               /\ UNCHANGED <<fam, nops, jsonStr, js>>

\* The caller has a text and no wrapper yet.
InitParse ==
    /\ jsonStr \in ParseInputs
    /\ js = WithSuggestions
    /\ heap = EmptyHeap
    /\ jv = [w \in Wrappers |-> Absent]
    /\ fam = [w \in Wrappers |-> IF w = "clone" THEN "clone" ELSE "orig"]
    /\ last = NoCall
    /\ nops = 0

\* Values of GO_ENV.
GoEnvs == {sEmpty, sDev, <<"D", "e", "v">>, sDevelopment, <<"p", "r", "o", "d">>}

\* What the caller hands to ParseSafelyFrom and MustParseFrom.
Sources ==
    {[kind |-> k, text |-> jsonStr, fails |-> FALSE] :
        k \in {"string", "bytes", "reader", "other"}}
    \cup {[kind |-> "reader", text |-> jsonStr, fails |-> TRUE]}

\* The call returned a wrapper of `doc`, which the caller keeps as orig.
Keeps(doc, call) ==
    \E m \in {Unmarshal(EmptyHeap, doc)} :
        /\ heap' = m.h
        /\ jv' = [jv EXCEPT !["orig"] = m.v]
        /\ last' = call
        /\ UNCHANGED <<fam, nops, jsonStr, js>>

\* result := ParseSafely(jsonStr); orig = result.Data
CallParseSafely ==
    /\ Idle
    /\ \E r \in {ParseSafely(jsonStr)} :
           Keeps(r.doc, [op |-> "ParseSafely", err |-> r.err,
                         suggestions |-> r.suggestions])

\* result := ParseSafelyFrom(source); orig = result.Data
CallParseSafelyFrom ==
    /\ Idle
    /\ \E source \in Sources :
           \E r \in {ParseSafelyFrom(source)} :
               Keeps(r.doc, [op |-> "ParseSafelyFrom", source |-> source,
                             err |-> r.err, suggestions |-> r.suggestions])

\* orig = MustParse(jsonStr)
CallMustParse ==
    /\ Idle
    /\ \E failed \in {~Loads(jsonStr).ok}, env \in GoEnvs :
           \E r \in {MustParse(jsonStr, env)} :
               IF r.panic
               THEN Reads([op |-> "MustParse", env |-> env, panic |-> TRUE,
                           failed |-> failed])
               ELSE Keeps(r.doc, [op |-> "MustParse", env |-> env, panic |-> FALSE,
                                  failed |-> failed])

\* orig = MustParseFrom(source)
CallMustParseFrom ==
    /\ Idle
    /\ \E source \in Sources :
           \E failed \in {ParseSafelyFrom(source).err # NoErr}, env \in GoEnvs :
               \E r \in {MustParseFrom(source, env)} :
                   IF r.panic
                   THEN Reads([op |-> "MustParseFrom", env |-> env, panic |-> TRUE,
                               failed |-> failed])
                   ELSE Keeps(r.doc, [op |-> "MustParseFrom", env |-> env,
                                      panic |-> FALSE, failed |-> failed])

\* orig, ok = TryParse(jsonStr)
CallTryParse ==
    /\ Idle
    /\ \E r \in {TryParse(jsonStr)} : Keeps(r.doc, [op |-> "TryParse", ok |-> r.ok])

\* orig = ParseOrDefault(jsonStr, defaultValue)
CallParseOrDefault ==
    /\ Idle
    /\ \E def \in {JObj(EmptyMap), JNull} :
           Keeps(ParseOrDefault(jsonStr, def), [op |-> "ParseOrDefault", def |-> def])

\* ValidateJSON(jsonStr)
CallValidateJSON ==
    /\ Idle
    /\ Reads([op |-> "ValidateJSON", ok |-> ValidateJSON(jsonStr)])

\* data, err := ParseWithFixes(jsonStr); orig = data when err is nil
CallParseWithFixes ==
    /\ Idle
    /\ \E r \in {ParseWithFixes(jsonStr)} :
           IF r.ok THEN Keeps(r.doc, [op |-> "ParseWithFixes", err |-> r.err])
           ELSE Reads([op |-> "ParseWithFixes", err |-> r.err])

NextParse ==
    \/ CallParseLenient
    \/ CallParseSafely
    \/ CallParseSafelyFrom
    \/ CallMustParse
    \/ CallMustParseFrom
    \/ CallTryParse
    \/ CallParseOrDefault
    \/ CallValidateJSON
    \/ CallParseWithFixes
    \/ Return

SpecParse == InitParse /\ [][NextParse]_vars

\* Everything that can be read through a wrapper: the value with the maps
\* and slices it reaches written out.
RECURSIVE Tree(_, _)
Tree(h, v) ==
    CASE v.t = "map" ->
            [t |-> "map", m |-> [k \in DOMAIN h.maps[v.id] |-> Tree(h, h.maps[v.id][k])]]
      [] v.t = "slice" ->
            [t |-> "slice", a |-> [i \in 1..v.len |-> Tree(h, h.arrs[v.arr][i])]]
      [] OTHER -> v

(***************************************************************************)
(* Array operations: the caller makes one call on the document it holds    *)
(* and keeps the wrapper it gets back as w1.                               *)
(***************************************************************************)
s9 == <<"9">>
s10 == <<"1", "0">>

\* {"a":"b"}, {"a":"b","b":true}, {"a":10}, {"a":9}, {"b":"a"}, "a"
ArrItems ==
    {JObj(sA :> JStr(sB)), JObj((sA :> JStr(sB)) @@ (sB :> JBool(TRUE))),
     JObj(sA :> JNum(10)), JObj(sA :> JNum(9)), JObj(sB :> JStr(sA)), JStr(sA)}

\* Arrays of up to MaxItems items, and three values that are not arrays.
ArrDocs ==
    {JArr(q) : q \in SeqsUpTo(ArrItems, MaxItems)}
    \cup {JNull, JStr(sA), JObj(sA :> JArr(<<>>))}

FieldNames == {sA, sB}

\* The values FindByField is asked to look for.
FindValues ==
    {StrV(sB), StrV(s10), IntV(0), IntV(10), FloatV(9), BoolV(TRUE), BoolV(FALSE)}

Counts == {-1, 0, 1, 2, MaxItems + 1}

\* The receiver as the call found it.
Receiver == [items |-> AsArray(heap, jv["orig"]), tree |-> Tree(heap, jv["orig"])]

MayCall == Idle /\ ~Present("w1")

\* w1 := orig.<op>(arg), r being what the operation returns.
Yields(r, call) ==
    /\ heap' = r.h
    /\ jv' = [jv EXCEPT !["w1"] = r.v]
    /\ last' = call @@ Receiver
    /\ UNCHANGED <<fam, nops, jsonStr, js>>

CallFilterArray ==
    /\ MayCall
    /\ \E p \in Predicates :
           Yields(FilterArray(heap, jv["orig"], p), [op |-> "FilterArray", p |-> p])

CallMapArray ==
    /\ MayCall
    /\ \E f \in MapFns :
           Yields(MapArray(heap, jv["orig"], f), [op |-> "MapArray", f |-> f])

CallSortBy ==
    /\ MayCall
    /\ \E field \in FieldNames :
           Yields(SortBy(heap, jv["orig"], field), [op |-> "SortBy", field |-> field])

CallUnique ==
    /\ MayCall
    /\ Yields(Unique(heap, jv["orig"]), [op |-> "Unique"])

CallTake ==
    /\ MayCall
    /\ \E n \in Counts : Yields(Take(heap, jv["orig"], n), [op |-> "Take", n |-> n])

CallSkip ==
    /\ MayCall
    /\ \E n \in Counts : Yields(Skip(heap, jv["orig"], n), [op |-> "Skip", n |-> n])

CallFindInArray ==
    /\ MayCall
    /\ \E p \in Predicates :
           Yields([h |-> heap, v |-> FindInArray(heap, jv["orig"], p)],
                  [op |-> "FindInArray", p |-> p])

CallFindByField ==
    /\ MayCall
    /\ \E field \in FieldNames, value \in FindValues :
           Yields([h |-> heap, v |-> FindByField(heap, jv["orig"], field, value)],
                  [op |-> "FindByField", field |-> field, value |-> value])

\* groups := orig.GroupBy(field)
CallGroupBy ==
    /\ MayCall
    /\ \E field \in FieldNames :
           Reads([op |-> "GroupBy", field |-> field,
                  groups |-> GroupBy(heap, jv["orig"], field)] @@ Receiver)

InitArr == InitFrom(ArrDocs)

NextArr ==
    \/ CallFilterArray
    \/ CallMapArray
    \/ CallSortBy
    \/ CallUnique
    \/ CallTake
    \/ CallSkip
    \/ CallFindInArray
    \/ CallFindByField
    \/ CallGroupBy
    \/ Return

SpecArr == InitArr /\ [][NextArr]_vars

(***************************************************************************)
(* builder.go: a JSONBuilder holds one wrapper.  The wrapper of the        *)
(* builder the caller works on is orig; a builder function is a list of    *)
(* calls it makes on the nested builder it is handed.                      *)
(***************************************************************************)
\* NewBuilder
NewBuilder(h) == MakeMap(h)

\* NewArrayBuilder
NewArrayBuilder(h) == MakeSlice(h)

\* AddField: jb.value.Set(key, value), the error dropped.
AddField(h, v, key, val) == [h |-> SetVal(h, v, StrV(key), val).h, v |-> v]

\* AddItem: jb.value.Append(value), the error dropped.
AddItem(h, v, val) == [h |-> AppendVal(h, v, val).h, v |-> AppendVal(h, v, val).v]

FieldStep(key, val) == [call |-> "AddField", key |-> key, val |-> val]

ItemStep(val) == [call |-> "AddItem", val |-> val]

\* builderFn(nested): the value of the nested builder when it returns.
RECURSIVE RunSteps(_, _, _)
RunSteps(h, v, steps) ==
    IF steps = <<>> THEN [h |-> h, v |-> v]
    ELSE LET r == IF Head(steps).call = "AddField"
                  THEN AddField(h, v, Head(steps).key, Head(steps).val)
                  ELSE AddItem(h, v, Head(steps).val)
         IN  RunSteps(r.h, r.v, Tail(steps))

\* AddObject: the heap, the value of the builder and that of the nested one.
AddObject(h, v, key, builderFn) ==
    LET nested == RunSteps(NewBuilder(h).h, NewBuilder(h).v, builderFn)
    IN  [h |-> SetVal(nested.h, v, StrV(key), nested.v).h, v |-> v, nested |-> nested.v]

\* AddArray that reads nested.value.Raw() before it runs the function.
AddArrayStoresFirst(h, v, key, builderFn) ==
    LET fresh == NewArrayBuilder(h)
        nested == RunSteps(SetVal(fresh.h, v, StrV(key), fresh.v).h, fresh.v, builderFn)
    IN  [h |-> nested.h, v |-> v, nested |-> nested.v]

\* AddArray
AddArray(h, v, key, builderFn) ==
    LET nested == RunSteps(NewArrayBuilder(h).h, NewArrayBuilder(h).v, builderFn)
    IN  [h |-> SetVal(nested.h, v, StrV(key), nested.v).h, v |-> v, nested |-> nested.v]

\* ToJSONString
ToJSONString(h, v) == Dumps(h, v)

sX == <<"x">>
sY == <<"y">>
sZ == <<"z">>

BuildKeys == {sX, sY}

BuildValues == {IntV(1), IntV(2)}

\* The calls a builder function makes.
Steps == {FieldStep(sZ, IntV(2)), FieldStep(sX, IntV(1)), ItemStep(IntV(1)), ItemStep(IntV(2))}

BuilderFns == SeqsUpTo(Steps, MaxSteps)

\* The caller makes at most MaxOps calls on the builder, a call with a
\* builder function being the last of them.
MayBuild == Idle /\ nops < MaxOps /\ ~Present("w1")

\* The builder as the call found it.
Parent == [tree |-> Tree(heap, jv["orig"])]

Builds(r, call) ==
    /\ heap' = r.h
    /\ jv' = [jv EXCEPT !["orig"] = r.v]
    /\ last' = call @@ Parent
    /\ nops' = nops + 1
    /\ UNCHANGED <<fam, jsonStr, js>>

\* The same, w1 being the wrapper of the nested builder.
BuildsNested(r, call) ==
    /\ heap' = r.h
    /\ jv' = [jv EXCEPT !["orig"] = r.v, !["w1"] = r.nested]
    /\ last' = call @@ Parent
    /\ nops' = nops + 1
    /\ UNCHANGED <<fam, jsonStr, js>>

CallAddField ==
    /\ MayBuild
    /\ \E key \in BuildKeys, val \in BuildValues :
           Builds(AddField(heap, jv["orig"], key, val),
                  [op |-> "AddField", key |-> key, val |-> val])

CallAddItem ==
    /\ MayBuild
    /\ \E val \in BuildValues :
           Builds(AddItem(heap, jv["orig"], val), [op |-> "AddItem", val |-> val])

CallAddObject ==
    /\ MayBuild
    /\ \E key \in BuildKeys, fn \in BuilderFns :
           BuildsNested(AddObject(heap, jv["orig"], key, fn),
                        [op |-> "AddObject", key |-> key, fn |-> fn])

CallAddArray ==
    /\ MayBuild
    /\ \E key \in BuildKeys, fn \in BuilderFns :
           BuildsNested(AddArray(heap, jv["orig"], key, fn),
                        [op |-> "AddArray", key |-> key, fn |-> fn])

CallToJSONString ==
    /\ Idle
    /\ Reads([op |-> "ToJSONString", text |-> ToJSONString(heap, jv["orig"])])

\* builder := NewBuilder() or NewArrayBuilder()
InitBuild ==
    /\ \E b \in {NewBuilder(EmptyHeap), NewArrayBuilder(EmptyHeap)} :
          /\ heap = b.h
          /\ jv = [w \in Wrappers |-> IF w = "orig" THEN b.v ELSE Absent]
    /\ fam = [w \in Wrappers |-> IF w = "clone" THEN "clone" ELSE "orig"]
    /\ last = NoCall
    /\ nops = 0
    /\ jsonStr = <<>>
    /\ js = WithSuggestions

NextBuild ==
    \/ CallAddField
    \/ CallAddItem
    \/ CallAddObject
    \/ CallAddArray
    \/ CallToJSONString
    \/ Return

SpecBuild == InitBuild /\ [][NextBuild]_vars

(***************************************************************************)
(* common_patterns.go                                                      *)
(***************************************************************************)
sId == <<"i", "d">>
sUser_id == <<"u", "s", "e", "r", "_", "i", "d">>
sUserId == <<"u", "s", "e", "r", "I", "d">>
sID == <<"I", "D">>
sName == <<"n", "a", "m", "e">>
sFull_name == <<"f", "u", "l", "l", "_", "n", "a", "m", "e">>
sFullName == <<"f", "u", "l", "l", "N", "a", "m", "e">>
sUsername == <<"u", "s", "e", "r", "n", "a", "m", "e">>
sDisplay_name == <<"d", "i", "s", "p", "l", "a", "y", "_", "n", "a", "m", "e">>
sEmail == <<"e", "m", "a", "i", "l">>
sEmail_address == <<"e", "m", "a", "i", "l", "_", "a", "d", "d", "r", "e", "s", "s">>
sEmailAddress == <<"e", "m", "a", "i", "l", "A", "d", "d", "r", "e", "s", "s">>
sMail == <<"m", "a", "i", "l">>
sRole == <<"r", "o", "l", "e">>
sUser_role == <<"u", "s", "e", "r", "_", "r", "o", "l", "e">>
sUserRole == <<"u", "s", "e", "r", "R", "o", "l", "e">>
sType == <<"t", "y", "p", "e">>
sAccount_type == <<"a", "c", "c", "o", "u", "n", "t", "_", "t", "y", "p", "e">>
sUser_name == <<"u", "s", "e", "r", "_", "n", "a", "m", "e">>
sUserName == <<"u", "s", "e", "r", "N", "a", "m", "e">>
sLogin == <<"l", "o", "g", "i", "n">>
sHandle == <<"h", "a", "n", "d", "l", "e">>
sPhone == <<"p", "h", "o", "n", "e">>
sPhone_number == <<"p", "h", "o", "n", "e", "_", "n", "u", "m", "b", "e", "r">>
sPhoneNumber == <<"p", "h", "o", "n", "e", "N", "u", "m", "b", "e", "r">>
sMobile == <<"m", "o", "b", "i", "l", "e">>
sTel == <<"t", "e", "l">>
sStatus == <<"s", "t", "a", "t", "u", "s">>
sState == <<"s", "t", "a", "t", "e">>
sResult == <<"r", "e", "s", "u", "l", "t">>
sSuccess == <<"s", "u", "c", "c", "e", "s", "s">>
sMessage == <<"m", "e", "s", "s", "a", "g", "e">>
sMsg == <<"m", "s", "g">>
sDescription == <<"d", "e", "s", "c", "r", "i", "p", "t", "i", "o", "n">>
sDetail == <<"d", "e", "t", "a", "i", "l">>
sInfo == <<"i", "n", "f", "o">>
sError == <<"e", "r", "r", "o", "r">>
sError_message == <<"e", "r", "r", "o", "r", "_", "m", "e", "s", "s", "a", "g", "e">>
sErrorMessage == <<"e", "r", "r", "o", "r", "M", "e", "s", "s", "a", "g", "e">>
sErr == <<"e", "r", "r">>
sCode == <<"c", "o", "d", "e">>
sError_code == <<"e", "r", "r", "o", "r", "_", "c", "o", "d", "e">>
sErrorCode == <<"e", "r", "r", "o", "r", "C", "o", "d", "e">>
sStatus_code == <<"s", "t", "a", "t", "u", "s", "_", "c", "o", "d", "e">>
sOk == <<"o", "k">>
sIs_success == <<"i", "s", "_", "s", "u", "c", "c", "e", "s", "s">>
sComplete == <<"c", "o", "m", "p", "l", "e", "t", "e">>
sCompleted == <<"c", "o", "m", "p", "l", "e", "t", "e", "d">>
sDone == <<"d", "o", "n", "e">>
sFail == <<"f", "a", "i", "l">>
sFailed == <<"f", "a", "i", "l", "e", "d">>
sFailure == <<"f", "a", "i", "l", "u", "r", "e">>
sFailedCapital == <<"F", "a", "i", "l", "e", "d">>

\* The candidate paths of each entry of GetUserInfo.
UserInfoPaths ==
    [id |-> <<sId, sUser_id, sUserId, sID>>,
     name |-> <<sName, sFull_name, sFullName, sUsername, sDisplay_name>>,
     email |-> <<sEmail, sEmail_address, sEmailAddress, sMail>>,
     role |-> <<sRole, sUser_role, sUserRole, sType, sAccount_type>>,
     username |-> <<sUsername, sUser_name, sUserName, sLogin, sHandle>>,
     phone |-> <<sPhone, sPhone_number, sPhoneNumber, sMobile, sTel>>]

\* The candidate paths of each entry of GetAPIResponseInfo.
APIResponseInfoPaths ==
    [status |-> <<sStatus, sState, sResult, sSuccess>>,
     message |-> <<sMessage, sMsg, sDescription, sDetail, sInfo>>,
     error |-> <<sError, sError_message, sErrorMessage, sErr>>,
     code |-> <<sCode, sError_code, sErrorCode, sStatus_code>>]

\* GetUserInfo
GetUserInfo(h, v) ==
    [c \in DOMAIN UserInfoPaths |-> AsString(h, TryPaths(h, v, UserInfoPaths[c]))]

\* GetAPIResponseInfo
GetAPIResponseInfo(h, v) ==
    [c \in DOMAIN APIResponseInfoPaths |->
        AsString(h, TryPaths(h, v, APIResponseInfoPaths[c]))]

successValues == {sSuccess, sOk, sTrue, s1, sComplete, sCompleted, sDone}

errorValues == {sError, sFail, sFailed, sFailure, sFalse, s0}

\* IsAPISuccess
IsAPISuccess(h, v) ==
    \/ ToLower(AsString(h, TryPaths(h, v, <<sStatus, sState, sResult, sSuccess>>)))
           \in successValues
    \/ AsBool(TryPaths(h, v, <<sSuccess, sOk, sIs_success>>))

\* IsAPIError
IsAPIError(h, v) ==
    \/ ToLower(AsString(h, TryPaths(h, v, <<sStatus, sState, sResult>>))) \in errorValues
    \/ AsString(h, TryPaths(h, v, <<sError, sError_message, sErrorMessage>>)) # sEmpty

\* The fields and the values of the responses the extractors are called on.
PatKeys == {sId, sUser_id, sStatus, sState, sSuccess, sError, sError_message}

PatValues ==
    {JNull, JStr(sSuccess), JStr(sError), JStr(sFailedCapital), JStr(sEmpty),
     JBool(TRUE), JBool(FALSE), JNum(0)}

\* Objects of up to MaxFields fields, and two values that are not objects.
PatDocs ==
    {JObj(m) : m \in UNION {[ks -> PatValues] :
                               ks \in {x \in SUBSET PatKeys : Cardinality(x) <= MaxFields}}}
    \cup {JNull, JArr(<<JStr(sError)>>)}

CallGetUserInfo ==
    /\ Idle
    /\ Reads([op |-> "GetUserInfo", res |-> GetUserInfo(heap, jv["orig"])])

CallGetAPIResponseInfo ==
    /\ Idle
    /\ Reads([op |-> "GetAPIResponseInfo", res |-> GetAPIResponseInfo(heap, jv["orig"])])

CallIsAPISuccess ==
    /\ Idle
    /\ Reads([op |-> "IsAPISuccess", res |-> IsAPISuccess(heap, jv["orig"])])

CallIsAPIError ==
    /\ Idle
    /\ Reads([op |-> "IsAPIError", res |-> IsAPIError(heap, jv["orig"])])

InitPat == InitFrom(PatDocs)

NextPat ==
    \/ CallGetUserInfo
    \/ CallGetAPIResponseInfo
    \/ CallIsAPISuccess
    \/ CallIsAPIError
    \/ Return

SpecPat == InitPat /\ [][NextPat]_vars

(***************************************************************************)
(* multi_path.go: DeepSearch, DeepSearchAll, FindPath.  Keys() ranges over *)
(* a Go map, whose iteration order is not fixed, so each of the three is   *)
(* the set of the results the call can give.                               *)
(***************************************************************************)
maxDepth == 10

\* A loop that returns the first result that is not `none`: what it may
\* return when it runs over the children in any order, `outs` being the sets
\* of results the children may give.
FirstInAnyOrder(outs, none) ==
    {r \in UNION outs : r # none} \cup (IF \A o \in outs : none \in o THEN {none} ELSE {})

\* The same for two children visited in order.
FirstInOrder(first, rest, none) ==
    {r \in first : r # none} \cup (IF none \in first THEN rest ELSE {})

RECURSIVE deepSearchRecursive(_, _, _, _, _)
RECURSIVE deepSearchItems(_, _, _, _, _, _)

deepSearchRecursive(h, v, key, currentDepth, max) ==
    IF currentDepth > max THEN {Null}
    ELSE IF Has(h, v, StrV(key)) THEN {Get(h, v, StrV(key))}
    ELSE IF IsObject(v) THEN
        FirstInAnyOrder({deepSearchRecursive(h, Get(h, v, StrV(k)), key,
                                             currentDepth + 1, max) : k \in Keys(h, v)},
                        Null)
    ELSE IF IsArray(v) THEN deepSearchItems(h, v, key, 0, currentDepth, max)
    ELSE {Null}

\* The loop over the items of an array, from index i on.
deepSearchItems(h, v, key, i, currentDepth, max) ==
    IF i >= LenOf(h, v) THEN {Null}
    ELSE FirstInOrder(deepSearchRecursive(h, Get(h, v, IntV(i)), key, currentDepth + 1, max),
                      deepSearchItems(h, v, key, i + 1, currentDepth, max), Null)

\* JSONValue.DeepSearch: the values it may return.
DeepSearch(h, v, key) == deepSearchRecursive(h, v, key, 0, maxDepth)

\* The sequences made of one sequence of each member of `keys`, the members
\* taken in any order; f[k] is the set of sequences of k.
RECURSIVE InAnyOrder(_, _)
InAnyOrder(keys, f) ==
    IF keys = {} THEN {<<>>}
    ELSE UNION {{a \o b : a \in f[k], b \in InAnyOrder(keys \ {k}, f)} : k \in keys}

RECURSIVE deepSearchAllRecursive(_, _, _, _, _)
RECURSIVE deepSearchAllItems(_, _, _, _, _, _)

\* What the call may append to *results.
deepSearchAllRecursive(h, v, key, currentDepth, max) ==
    IF currentDepth > max THEN {<<>>}
    ELSE LET own == IF Has(h, v, StrV(key)) THEN <<Get(h, v, StrV(key))>> ELSE <<>>
             below ==
                 IF IsObject(v) THEN
                     InAnyOrder(Keys(h, v),
                                [k \in Keys(h, v) |->
                                    deepSearchAllRecursive(h, Get(h, v, StrV(k)), key,
                                                           currentDepth + 1, max)])
                 ELSE IF IsArray(v) THEN deepSearchAllItems(h, v, key, 0, currentDepth, max)
                 ELSE {<<>>}
         IN  {own \o b : b \in below}

deepSearchAllItems(h, v, key, i, currentDepth, max) ==
    IF i >= LenOf(h, v) THEN {<<>>}
    ELSE {a \o b : a \in deepSearchAllRecursive(h, Get(h, v, IntV(i)), key,
                                                currentDepth + 1, max),
                   b \in deepSearchAllItems(h, v, key, i + 1, currentDepth, max)}

\* JSONValue.DeepSearchAll: the slices it may return.
DeepSearchAll(h, v, key) == deepSearchAllRecursive(h, v, key, 0, maxDepth)

\* string(rune(i + '0')): the character whose code is 48 + i.  The arrays of
\* the model have fewer than 16 items.
IndexRunes ==
    <<"0", "1", "2", "3", "4", "5", "6", "7", "8", "9", ":", ";", "<", "=", ">", "?">>

IndexRune(i) == <<IndexRunes[i + 1]>>

RECURSIVE findPathRecursive(_, _, _, _, _, _)
RECURSIVE findPathItems(_, _, _, _, _, _, _)

findPathRecursive(h, v, key, currentPath, currentDepth, max) ==
    IF currentDepth > max THEN {sEmpty}
    ELSE IF Has(h, v, StrV(key)) THEN {currentPath \o sDot \o key}
    ELSE IF IsObject(v) THEN
        FirstInAnyOrder({findPathRecursive(h, Get(h, v, StrV(k)), key,
                                           currentPath \o sDot \o k,
                                           currentDepth + 1, max) : k \in Keys(h, v)},
                        sEmpty)
    ELSE IF IsArray(v) THEN findPathItems(h, v, key, currentPath, 0, currentDepth, max)
    ELSE {sEmpty}

findPathItems(h, v, key, currentPath, i, currentDepth, max) ==
    IF i >= LenOf(h, v) THEN {sEmpty}
    ELSE FirstInOrder(findPathRecursive(h, Get(h, v, IntV(i)), key,
                                        currentPath \o sDot \o IndexRune(i),
                                        currentDepth + 1, max),
                      findPathItems(h, v, key, currentPath, i + 1, currentDepth, max),
                      sEmpty)

\* strings.TrimPrefix
TrimPrefix(s, prefix) ==
    IF HasPrefixAt(s, 1, prefix) THEN SubSeq(s, Len(prefix) + 1, Len(s)) ELSE s

\* JSONValue.FindPath: the paths it may return.
FindPath(h, v, key) ==
    {TrimPrefix(p, sDot) : p \in findPathRecursive(h, v, key, sEmpty, 0, maxDepth)}

(***************************************************************************)
(* Searching: the caller makes one search on the document it holds.        *)
(***************************************************************************)
MaxNest == 2

SearchLeafs == {JNull, JNum(1)}

NestKeys == {sA, sB, s0}

\* The values a second field or item holds.
Shallow == SearchLeafs \cup {JObj(k :> x) : k \in NestKeys, x \in SearchLeafs}

\* Documents of up to n levels of mappings and sequences of one or two
\* members.
RECURSIVE Nested(_)
Nested(n) ==
    IF n = 0 THEN SearchLeafs
    ELSE SearchLeafs
         \cup {JObj(k :> x) : k \in NestKeys, x \in Nested(n - 1)}
         \cup {JObj((p[1] :> x) @@ (p[2] :> y)) :
                  p \in {<<sA, sB>>, <<sA, s0>>, <<sB, s0>>, <<s0, sA>>},
                  x \in Nested(n - 1), y \in Shallow}
         \cup {JArr(<<x>>) : x \in Nested(n - 1)}
         \cup {JArr(<<x, y>>) : x \in Nested(n - 1), y \in Shallow}

\* d below n mappings: {"a": {"a": ... d}}
RECURSIVE Chain(_, _)
Chain(n, d) == IF n = 0 THEN d ELSE JObj(sA :> Chain(n - 1, d))

\* [1, 2, ..., 10, {"b": 1}] and {"a": [[1, ..., 10, {"b": 1}]]}
LongArray == JArr([i \in 1..11 |-> IF i = 11 THEN JObj(sB :> JNum(1)) ELSE JNum(i)])

SearchDocs(n) ==
    Nested(n)
    \cup {Chain(maxDepth, JObj(sB :> JNum(1))), Chain(maxDepth + 1, JObj(sB :> JNum(1))),
          LongArray, JObj(sA :> JArr(<<LongArray>>))}

SearchKeys == {sA, sB}

CallDeepSearch ==
    /\ Idle
    /\ \E key \in SearchKeys :
           \E r \in DeepSearch(heap, jv["orig"], key) :
               Reads([op |-> "DeepSearch", key |-> key, res |-> r])

CallDeepSearchAll ==
    /\ Idle
    /\ \E key \in SearchKeys :
           \E r \in DeepSearchAll(heap, jv["orig"], key) :
               Reads([op |-> "DeepSearchAll", key |-> key, res |-> r])

CallFindPath ==
    /\ Idle
    /\ \E key \in SearchKeys :
           \E r \in FindPath(heap, jv["orig"], key) :
               Reads([op |-> "FindPath", key |-> key, res |-> r])

InitSearch == InitFrom(SearchDocs(MaxNest))

NextSearch ==
    \/ CallDeepSearch
    \/ CallDeepSearchAll
    \/ CallFindPath
    \/ Return

SpecSearch == InitSearch /\ [][NextSearch]_vars

(***************************************************************************)
(* Suggestions: the caller holds a suggester over the document and         *)
(* validates paths with it.                                                *)
(***************************************************************************)
sUser == <<"u", "s", "e", "r">>
sUserDotName == <<"u", "s", "e", "r", ".", "n", "a", "m", "e">>
sUsrDotName == <<"u", "s", "r", ".", "n", "a", "m", "e">>
sItem == <<"i", "t", "e", "m">>
sItems == <<"i", "t", "e", "m", "s">>
sItem1 == <<"i", "t", "e", "m", "1">>
sItem2 == <<"i", "t", "e", "m", "2">>
sItem3 == <<"i", "t", "e", "m", "3">>
sItem12 == <<"i", "t", "e", "m", "1", "2">>
sItemx == <<"i", "t", "e", "m", "x">>
sItem1x == <<"i", "t", "e", "m", "1", "x">>
sIte == <<"i", "t", "e">>
sADotB == <<"a", ".", "b">>

\* {"user": {"name": "a", "email": null}, "status": "a"}
DocUser ==
    JObj((sUser :> JObj((sName :> JStr(sA)) @@ (sEmail :> JNull)))
         @@ (sStatus :> JStr(sA)))

\* {"item": 1, "item1": 1, "item2": 1, "item3": 1, "items": [1], "item12": 1}
DocItems ==
    JObj((sItem :> JNum(1)) @@ (sItem1 :> JNum(1)) @@ (sItem2 :> JNum(1))
         @@ (sItem3 :> JNum(1)) @@ (sItems :> JArr(<<JNum(1)>>))
         @@ (sItem12 :> JNum(1)))

\* {"a.b": 1, "a": {"a": {"b": 1}}}
DocDotted ==
    JObj((sADotB :> JNum(1)) @@ (sA :> JObj(sA :> JObj(sB :> JNum(1)))))

SuggestDocs == {DocItems, DocDotted, JArr(<<JStr(sA)>>), JNull}

ValidatePaths ==
    {sUserDotName, sUsrDotName, sStatus, sItemx, sItem1x, sIte, sItem, sADotB, s0, sEmpty}

\* The path the caller keeps coming back to, and how often.
RepeatedPath == sStatus

MaxRepeats == 152

Accesses(path) == IF path \in DOMAIN js.commonPaths THEN js.commonPaths[path] ELSE 0

\* Besides RepeatedPath, the caller has at most one access recorded.
MayValidate(path) ==
    IF path = RepeatedPath THEN Accesses(path) < MaxRepeats
    ELSE DOMAIN js.commonPaths \subseteq {RepeatedPath}

\* valid, suggestions := smart.ValidatePathWithSuggestions(path)
CallValidatePathWithSuggestions ==
    /\ Idle
    /\ \E path \in ValidatePaths :
          /\ MayValidate(path)
          /\ \E r \in ValidatePathWithSuggestions(heap, jv["orig"], js, path) :
                /\ last' = [op |-> "ValidatePathWithSuggestions", path |-> path,
                            valid |-> r.valid, suggestions |-> r.suggestions]
                /\ js' = r.js
    /\ UNCHANGED <<heap, jv, fam, nops, jsonStr>>

InitSuggest == InitFrom(SuggestDocs)

NextSuggest == CallValidatePathWithSuggestions \/ Return

SpecSuggest == InitSuggest /\ [][NextSuggest]_vars

\* The caller validates the paths of one document again and again.
InitTrack == InitFrom({DocUser})

SpecTrack == InitTrack /\ [][NextSuggest]_vars

(***************************************************************************)
(* common_patterns.go: SanitizeForOutput.  The caller makes one call on    *)
(* the document it holds and keeps the wrapper it gets back as w1.         *)
(***************************************************************************)
sensitiveFields ==
    <<
      <<"p", "a", "s", "s", "w", "o", "r", "d">>,
      <<"s", "e", "c", "r", "e", "t">>,
      <<"t", "o", "k", "e", "n">>,
      <<"k", "e", "y">>,
      <<"p", "r", "i", "v", "a", "t", "e">>,
      <<"s", "s", "n">>,
      <<"s", "o", "c", "i", "a", "l", "_", "s", "e", "c", "u", "r", "i", "t", "y">>,
      <<"c", "r", "e", "d", "i", "t", "_", "c", "a", "r", "d">>,
      <<"c", "v", "v">>,
      <<"a", "p", "i", "_", "k", "e", "y">>,
      <<"a", "c", "c", "e", "s", "s", "_", "t", "o", "k", "e", "n">>,
      <<"r", "e", "f", "r", "e", "s", "h", "_", "t", "o", "k", "e", "n">>,
      <<"p", "r", "i", "v", "a", "t", "e", "_", "k", "e", "y">>,
      <<"c", "e", "r", "t", "i", "f", "i", "c", "a", "t", "e">>,
      <<"h", "a", "s", "h">>,
      <<"s", "a", "l", "t">>
    >>

\* strings.Contains(strings.ToLower(key), field) for one of the fields
IsSensitive(key) ==
    \E i \in DOMAIN sensitiveFields : Contains(ToLower(key), sensitiveFields[i])

\* SanitizeForOutput: the loop that deletes the sensitive keys of cleaned.
RemoveSensitive(h, cleaned) ==
    [h EXCEPT !.maps[cleaned.id] = [k \in {x \in DOMAIN @ : ~IsSensitive(x)} |-> @[k]]]

\* SanitizeForOutput: the heap and the data of the wrapper it returns.  The
\* order in which the keys are visited decides only where the new maps and
\* slices are allocated.
RECURSIVE SanitizeForOutput(_, _)
RECURSIVE SanitizeChildren(_, _, _)
RECURSIVE SanitizeItems(_, _, _, _)
SanitizeForOutput(h, v) ==
    IF ~IsObject(v) THEN [h |-> h, v |-> v]
    ELSE LET cleaned == Clone(h, v)
             removed == RemoveSensitive(cleaned.h, cleaned.v)
         IN  [h |-> SanitizeChildren(removed, cleaned.v, Keys(removed, cleaned.v)),
              v |-> cleaned.v]

\* cleanedArray after the items from index i on
SanitizeItems(h, child, i, cleanedArray) ==
    IF i >= LenOf(h, child) THEN [h |-> h, v |-> cleanedArray]
    ELSE LET item == Get(h, child, IntV(i))
             raw == IF IsObject(item) THEN SanitizeForOutput(h, item)
                    ELSE [h |-> h, v |-> item]
             appended == AppendSlice(raw.h, cleanedArray, <<raw.v>>)
         IN  SanitizeItems(appended.h, child, i + 1, appended.v)

\* The loop `Recursively clean nested objects` over the keys still to visit.
SanitizeChildren(h, cleaned, keys) ==
    IF keys = {} THEN h
    ELSE LET key == CHOOSE k \in keys : TRUE
             child == Get(h, cleaned, StrV(key))
             set == IF IsObject(child) THEN SanitizeForOutput(h, child)
                    ELSE IF IsArray(child)
                      THEN SanitizeItems(MakeSlice(h).h, child, 0, MakeSlice(h).v)
                    ELSE [h |-> h, v |-> child]
         IN  SanitizeChildren(SetVal(set.h, cleaned, StrV(key), set.v).h,
                              cleaned, keys \ {key})

sPassword == <<"p", "a", "s", "s", "w", "o", "r", "d">>
sAPI_KEY == <<"A", "P", "I", "_", "K", "E", "Y">>
sTokens == <<"t", "o", "k", "e", "n", "s">>

SanitizeKeys == {sPassword, sAPI_KEY, sTokens, sName}

\* Documents of up to n levels of mappings and sequences.
RECURSIVE SanitizeDocs(_)
SanitizeDocs(n) ==
    IF n = 0 THEN {JStr(sA), JNull}
    ELSE SanitizeDocs(n - 1)
         \cup {JObj(k :> x) : k \in SanitizeKeys, x \in SanitizeDocs(n - 1)}
         \cup {JObj((sName :> x) @@ (k :> JStr(sA))) :
                  k \in SanitizeKeys \ {sName}, x \in SanitizeDocs(n - 1)}
         \cup {JArr(<<x>>) : x \in SanitizeDocs(n - 1)}

\* {"name": [[{"password": "a"}]]}
DocSequences == JObj(sName :> JArr(<<JArr(<<JObj(sPassword :> JStr(sA))>>)>>))

\* safe := data.SanitizeForOutput(), kept as w1
CallSanitizeForOutput ==
    /\ Idle
    /\ ~Present("w1")
    /\ \E r \in {SanitizeForOutput(heap, jv["orig"])} :
          /\ heap' = r.h
          /\ jv' = [jv EXCEPT !["w1"] = r.v]
    /\ last' = [op |-> "SanitizeForOutput", doc |-> Marshal(heap, jv["orig"])]
    /\ UNCHANGED <<fam, nops, jsonStr, js>>

InitSanitize == InitFrom(SanitizeDocs(MaxNest + 1) \cup {DocSequences})

NextSanitize == CallSanitizeForOutput \/ Return

SpecSanitize == InitSanitize /\ [][NextSanitize]_vars

(***************************************************************************)
(* Navigation: Get, Q, Path.                                               *)
(***************************************************************************)
ValueKinds == {"null", "bool", "num", "int", "str", "map", "slice"}

\* A key that cannot be looked up in v: absent from a mapping, outside the
\* sequence, of the wrong kind for the container, or v is no container.
KeyMisses(h, v, key) ==
    \/ v.t = "map" /\ (key.t # "str" \/ key.s \notin DOMAIN h.maps[v.id])
    \/ v.t = "slice" /\ (key.t # "int" \/ key.n < 0 \/ key.n >= v.len)
    \/ v.t \notin {"map", "slice"}

\* What is stored in container v under a key that does not miss.
Stored(h, v, key) ==
    IF v.t = "map" THEN h.maps[v.id][key.s] ELSE h.arrs[v.arr][key.n + 1]

\* The position of the first key of the chain that misses, 0 when none does.
RECURSIVE FirstMiss(_, _, _)
FirstMiss(h, v, keys) ==
    IF keys = <<>> THEN 0
    ELSE IF KeyMisses(h, v, Head(keys)) THEN 1
    ELSE LET r == FirstMiss(h, Stored(h, v, Head(keys)), Tail(keys))
         IN  IF r = 0 THEN 0 ELSE r + 1

\* The same for the segments of a dotted path: a segment names a key of a
\* mapping, or, written as an integer, an index of a sequence.
SegIndexes(v, seg) == AtoiOk(seg) /\ Atoi(seg) >= 0 /\ Atoi(seg) < v.len

SegMisses(h, v, seg) ==
    \/ v.t = "map" /\ seg \notin DOMAIN h.maps[v.id]
    \/ v.t = "slice" /\ ~SegIndexes(v, seg)
    \/ v.t \notin {"map", "slice"}

SegStored(h, v, seg) ==
    IF v.t = "map" THEN h.maps[v.id][seg] ELSE h.arrs[v.arr][Atoi(seg) + 1]

RECURSIVE FirstSegMiss(_, _, _)
FirstSegMiss(h, v, segs) ==
    IF segs = <<>> THEN 0
    ELSE IF SegMisses(h, v, Head(segs)) THEN 1
    ELSE LET r == FirstSegMiss(h, SegStored(h, v, Head(segs)), Tail(segs))
         IN  IF r = 0 THEN 0 ELSE r + 1

NoEmptySegment(path) == \A i \in 1..Len(Split(path, ".")) : Split(path, ".")[i] # <<>>

\* C1: Get, Q and Path always return a value, and return Null whenever some
\* step of the chain misses (absent key, index out of range, key of the wrong
\* kind for the container, or a step applied to a scalar or to Null); a miss
\* makes the whole chain Null whatever keys follow it.
NavigationNeverFails ==
    /\ last.op \in {"Get", "Q", "Path"} => last.res.t \in ValueKinds
    /\ last.op = "Get" /\ KeyMisses(heap, jv["orig"], last.key) => last.res = Null
    /\ last.op = "Q" /\ FirstMiss(heap, jv["orig"], last.keys) # 0 => last.res = Null
    /\ last.op = "Path" /\ NoEmptySegment(last.path)
         /\ FirstSegMiss(heap, jv["orig"], Split(last.path, ".")) # 0
         => last.res = Null

\* A chain of three keys whose second key is an integer applied to a mapping.
NavigationMissWitness ==
    /\ last.op = "Q"
    /\ Len(last.keys) = 3
    /\ FirstMiss(heap, jv["orig"], last.keys) = 2
    /\ last.keys[2].t = "int"
    /\ Get(heap, jv["orig"], last.keys[1]).t = "map"
    /\ last.res = Null

\* C2: every coercion accessor returns its zero value on Null, so a missing
\* field read through Path and then AsString yields "".
NullCoercesToZero ==
    last.op = "As" /\ IsNull(last.res) =>
        /\ last.asString = sEmpty
        /\ last.asInt = 0
        /\ last.asFloat = 0
        /\ last.asBool = FALSE
        /\ last.asArray = <<>>
        /\ last.asObject = EmptyMap

\* What the accessors other than AsString return on Null.
NullCoercesToZeroButString ==
    last.op = "As" /\ IsNull(last.res) =>
        /\ last.asInt = 0
        /\ last.asFloat = 0
        /\ last.asBool = FALSE
        /\ last.asArray = <<>>
        /\ last.asObject = EmptyMap

(***************************************************************************)
(* Clone, Set and Delete.                                                  *)
(***************************************************************************)
\* The step is a mutating call made through wrapper w.
MutatesThrough(w) == Idle /\ last'.op \in Mutators /\ last'.w = w

\* C3: Clone returns a deep copy sharing nothing with the receiver: the
\* clone reads as the original did, and afterwards no Set, Delete, Append,
\* Extend, Update or SetPath made through the original or through a wrapper
\* taken from it changes what is read through the clone, nor the other way
\* round.
CloneSharesNothing ==
    [][/\ ~Present("clone") /\ jv'["clone"] # Absent =>
            /\ Marshal(heap', jv'["clone"]) = Marshal(heap, jv["orig"])
            /\ Tree(heap', jv'["orig"]) = Tree(heap, jv["orig"])
       /\ \A w \in Wrappers :
            MutatesThrough(w) /\ Present("clone") =>
                /\ fam[w] = "orig" =>
                      Tree(heap', jv'["clone"]) = Tree(heap, jv["clone"])
                /\ fam[w] = "clone" =>
                      Tree(heap', jv'["orig"]) = Tree(heap, jv["orig"])]_vars

\* A nested container of the original, reached through Get, has been
\* changed after cloning, and the clone now differs from the original.
CloneWitness ==
    /\ last.op \in Mutators
    /\ last.err = NoErr
    /\ last.w = "w1"
    /\ fam["w1"] = "orig"
    /\ Present("clone")
    /\ Marshal(heap, jv["clone"]) # Marshal(heap, jv["orig"])

\* The cases in which Set and Delete are to fail.
Rejects(h, v, key) ==
    \/ v.t \notin {"map", "slice"}
    \/ v.t = "map" /\ key.t # "str"
    \/ v.t = "slice" /\ (key.t # "int" \/ key.n < 0 \/ key.n >= v.len)

\* m with key k bound to x, and m without key k.
MapWith(m, k, x) == [y \in DOMAIN m \cup {k} |-> IF y = k THEN x ELSE m[y]]
MapWithout(m, k) == [y \in DOMAIN m \ {k} |-> m[y]]

\* a without its i-th element.
SeqWithout(a, i) == [j \in 1..(Len(a) - 1) |-> IF j < i THEN a[j] ELSE a[j + 1]]

\* C4: Set and Delete return an error and change nothing when the receiver
\* is no mapping or sequence, when the key is of the wrong kind for the
\* container, or when the index is out of range; otherwise they return no
\* error and the receiver reads as the old value with the key set or removed.
SetDeleteContract ==
    [][\A w \in Wrappers :
          Idle /\ last'.op \in {"Set", "Delete"} /\ last'.w = w =>
            LET old == Tree(heap, jv[w])
                new == Tree(heap', jv'[w])
                key == last'.key
            IN  IF Rejects(heap, jv[w], key) THEN
                    /\ last'.err # NoErr
                    /\ \A x \in Wrappers : Tree(heap', jv'[x]) = Tree(heap, jv[x])
                ELSE
                    /\ last'.err = NoErr
                    /\ new.t = old.t
                    /\ last'.op = "Set" /\ old.t = "map" =>
                          new.m = MapWith(old.m, key.s, Tree(heap', last'.val))
                    /\ last'.op = "Set" /\ old.t = "slice" =>
                          new.a = [old.a EXCEPT ![key.n + 1] = Tree(heap', last'.val)]
                    /\ last'.op = "Delete" /\ old.t = "map" =>
                          new.m = MapWithout(old.m, key.s)
                    /\ last'.op = "Delete" /\ old.t = "slice" =>
                          new.a = SeqWithout(old.a, key.n + 1)]_vars

\* Delete with an index past the end of a sequence returned an error.
SetDeleteWitness ==
    /\ last.op = "Delete"
    /\ last.err # NoErr
    /\ jv[last.w].t = "slice"
    /\ last.key.t = "int"
    /\ last.key.n >= jv[last.w].len

(***************************************************************************)
(* Smart getters.                                                          *)
(***************************************************************************)
\* The getter's result when `path` is queried and `def` is the default.
GetterResult(getter, path, def) ==
    IF IsNull(Q(heap, jv["orig"], path)) THEN def
    ELSE Coerce(getter, heap, Q(heap, jv["orig"], path))

LastArgMatches(getter, keys) ==
    keys # <<>> /\ keys[Len(keys)].t = DefaultType(getter)

Front(keys) == SubSeq(keys, 1, Len(keys) - 1)

\* C5: as stated, the final argument is the default whenever its type matches
\* the getter's return type.
GetterDefaultWheneverTypeMatches ==
    last.op = "SmartGet" =>
        last.res = IF LastArgMatches(last.getter, last.keys)
                   THEN GetterResult(last.getter, Front(last.keys),
                                     last.keys[Len(last.keys)])
                   ELSE GetterResult(last.getter, last.keys, ZeroOf(last.getter))

\* C5: amended, the final argument is the default when there is more than one
\* argument and its type matches the getter's return type; otherwise all the
\* arguments are the path and the zero value is the default.  The default is
\* returned when the path resolves to Null, the coerced value otherwise.
GetterDefaultWhenSeveralArgs ==
    last.op = "SmartGet" =>
        last.res = IF Len(last.keys) > 1 /\ LastArgMatches(last.getter, last.keys)
                   THEN GetterResult(last.getter, Front(last.keys),
                                     last.keys[Len(last.keys)])
                   ELSE GetterResult(last.getter, last.keys, ZeroOf(last.getter))

\* GetString("a", "b") on a value without "a": "b" is returned as the default.
GetterDefaultWitness ==
    /\ last.op = "SmartGet"
    /\ last.getter = "GetString"
    /\ last.keys = <<StrV(sA), StrV(sB)>>
    /\ IsNull(Get(heap, jv["orig"], StrV(sA)))
    /\ last.res = StrV(sB)

\* C6: with exactly one key argument GetString, GetInt and GetBool look that
\* key up (it is never the default) and return the coerced value found, or
\* the zero value when the lookup gives Null.
SingleKeyIsPath ==
    last.op = "SmartGet" /\ last.getter \in {"GetString", "GetInt", "GetBool"}
        /\ Len(last.keys) = 1 =>
        last.res = IF IsNull(Get(heap, jv["orig"], last.keys[1]))
                   THEN ZeroOf(last.getter)
                   ELSE Coerce(last.getter, heap, Get(heap, jv["orig"], last.keys[1]))

\* GetString("0") on {"0": "a", ...} returns "a".
SingleKeyWitness ==
    /\ last.op = "SmartGet"
    /\ last.getter = "GetString"
    /\ last.keys = <<StrV(s0)>>
    /\ Get(heap, jv["orig"], StrV(s0)) = StrV(sA)
    /\ last.res = StrV(sA)

(***************************************************************************)
(* TryPaths and Path.                                                      *)
(***************************************************************************)
Resolving(paths) == {i \in 1..Len(paths) : ~IsNull(Path(heap, jv["orig"], paths[i]))}

FirstResolving(paths) == CHOOSE i \in Resolving(paths) : \A j \in Resolving(paths) : i <= j

\* C7: TryPaths returns the resolution of the first candidate, in argument
\* order, that resolves to a non-null value, and Null when none does.
TryPathsFirstNonNull ==
    last.op = "TryPaths" =>
        last.res = IF Resolving(last.paths) = {} THEN Null
                   ELSE Path(heap, jv["orig"], last.paths[FirstResolving(last.paths)])

\* Two candidates resolve to different values and the first one is returned.
TryPathsWitness ==
    /\ last.op = "TryPaths"
    /\ Len(last.paths) = 2
    /\ Resolving(last.paths) = {1, 2}
    /\ Path(heap, jv["orig"], last.paths[1]) # Path(heap, jv["orig"], last.paths[2])
    /\ last.res = Path(heap, jv["orig"], last.paths[1])

\* A segment resolved as the claim describes: as an index into a sequence
\* when it is one, else as a key of a mapping.
RECURSIVE ResolveSegs(_, _, _)
ResolveSegs(h, v, segs) ==
    IF segs = <<>> THEN v
    ELSE IF SegMisses(h, v, Head(segs)) THEN Null
    ELSE IF IsNull(SegStored(h, v, Head(segs))) THEN Null
    ELSE ResolveSegs(h, SegStored(h, v, Head(segs)), Tail(segs))

\* C8: Path splits on '.' and resolves each segment first as an index into a
\* sequence and then as a mapping key, so an integer-looking segment still
\* resolves against a mapping that has it as a key; Null at the first miss.
PathTriesIndexThenKey ==
    last.op = "Path" /\ NoEmptySegment(last.path) =>
        last.res = ResolveSegs(heap, jv["orig"], Split(last.path, "."))

(***************************************************************************)
(* ParseLenient.                                                           *)
(***************************************************************************)
\* The document the wrapper returned by the last call holds.
Returned == Marshal(heap, jv["orig"])

LenientCalled == last.op = "ParseLenient"

\* C9: ParseLenient always returns a wrapper, and what it holds is the
\* result of the first strategy that succeeds, in the order strict parse,
\* repair then strict parse, extraction then strict parse; the fallback, a
\* new empty mapping, is returned only when these three all fail, and a
\* valid text gives exactly its strict parse.
LenientFirstSuccessWins ==
    LenientCalled =>
        /\ last.res = jv["orig"]
        /\ last.res.t \in ValueKinds
        /\ last.by \in {"strict", "fixes", "extract", "empty"}
        /\ last.by = "strict" <=> Loads(jsonStr).ok
        /\ last.by = "fixes" <=>
              ~Loads(jsonStr).ok /\ Loads(FixCommonIssues(jsonStr)).ok
        /\ last.by = "empty" <=>
              /\ ~Loads(jsonStr).ok
              /\ ~Loads(FixCommonIssues(jsonStr)).ok
              /\ ~Extract(jsonStr).ok
        /\ Returned =
              CASE last.by = "strict" -> Loads(jsonStr).doc
                [] last.by = "fixes" -> Loads(FixCommonIssues(jsonStr)).doc
                [] last.by = "extract" -> Extract(jsonStr).doc
                [] OTHER -> JObj(EmptyMap)

\* A valid object followed by a letter: strict and repaired parsing fail,
\* and the extraction gives the object back.
LenientWitness ==
    /\ LenientCalled
    /\ jsonStr = tObject \o <<"x">>
    /\ last.by = "extract"
    /\ Returned = JObj(sA :> JNum(1))

\* The prefixes of the trimmed text that are a complete object or array.
LeadingValues(text) ==
    {n \in 1..Len(TrimSpace(text)) :
        /\ TrimSpace(text)[1] \in {"{", "["}
        /\ Loads(SubSeq(TrimSpace(text), 1, n)).ok}

\* C10: when the trimmed text starts with a complete object or array and
\* goes on with any text that makes strict and repaired parsing fail,
\* ParseLenient returns that leading value.
LenientRecoversLeadingValue ==
    (/\ LenientCalled
     /\ ~Loads(jsonStr).ok
     /\ ~Loads(FixCommonIssues(jsonStr)).ok)
    => \A n \in LeadingValues(jsonStr) :
          Returned = Loads(SubSeq(TrimSpace(jsonStr), 1, n)).doc

\* The text strict parsing rejects.
StrictFails == ~Loads(jsonStr).ok

\* C11: ParseSafely always returns a result with a usable Data.  When the
\* strict parse succeeds Error is nil, Suggestions is empty and Data is the
\* parsed value; when it fails Error is set and Data is an empty mapping,
\* whatever a repair would have made of the text; and a rejected text with
\* True or False in it comes with the suggestion to use lowercase.
ParseSafelyContract ==
    last.op = "ParseSafely" =>
        /\ jv["orig"] # Absent
        /\ ~StrictFails =>
              /\ last.err = NoErr
              /\ last.suggestions = <<>>
              /\ Returned = Loads(jsonStr).doc
        /\ StrictFails =>
              /\ last.err # NoErr
              /\ jv["orig"].t = "map"
              /\ Returned = JObj(EmptyMap)
        /\ StrictFails /\ (Contains(jsonStr, sPyTrue) \/ Contains(jsonStr, sPyFalse)) =>
              \E i \in 1..Len(last.suggestions) : last.suggestions[i] = SuggestLowercase

\* ParseSafely(`[True]`): an error, the lowercase suggestion, and an empty
\* mapping although the repaired text parses.
ParseSafelyWitness ==
    /\ last.op = "ParseSafely"
    /\ jsonStr = tPython
    /\ Loads(FixCommonIssues(jsonStr)).ok
    /\ last.err = ErrChar
    /\ last.suggestions = <<SuggestEscapes, SuggestQuoted, SuggestLowercase>>
    /\ Returned = JObj(EmptyMap)

ParseEntryPoints ==
    {"ParseSafely", "ParseSafelyFrom", "TryParse", "ParseOrDefault", "ParseWithFixes",
     "ParseLenient", "ValidateJSON", "MustParse", "MustParseFrom"}

\* C12: MustParse and MustParseFrom panic only when the input fails to
\* parse and GO_ENV selects development mode (unset, "development" or "dev",
\* in any case of letters); in production mode a failed parse returns an
\* empty mapping, and valid input is returned in either mode.  No other
\* parsing entry point panics.
OnlyMustParseAborts ==
    /\ Aborted => last.op \in {"MustParse", "MustParseFrom"}
    /\ last.op \in {"MustParse", "MustParseFrom"} =>
          /\ last.panic =>
                /\ last.failed
                /\ ToLower(last.env) \in {<<>>, sDev, sDevelopment}
          /\ ~last.panic /\ last.failed => Returned = JObj(EmptyMap)
          /\ ~last.failed => ~last.panic
    /\ last.op = "MustParse" /\ ~last.failed => Returned = Loads(jsonStr).doc

\* MustParse of a rejected text has panicked with GO_ENV=Dev.
MustParseWitness ==
    /\ last.op = "MustParse"
    /\ last.env = <<"D", "e", "v">>
    /\ last.failed
    /\ Aborted

(***************************************************************************)
(* Array operations.                                                       *)
(***************************************************************************)
\* The items of the wrapper the call returned.
Result == AsArray(heap, jv["w1"])

\* The receiver reads as it did before the call.
ReceiverUnchanged ==
    /\ AsArray(heap, jv["orig"]) = last.items
    /\ Tree(heap, jv["orig"]) = last.tree

\* C13: FilterArray returns the items that satisfy the predicate, in their
\* original order; MapArray returns as many elements as there are items,
\* the i-th being the callback's result for item i; neither changes the
\* length, the order or the elements of the receiver.
FilterMapContract ==
    /\ last.op = "FilterArray" =>
          /\ Result = SelectSeq(last.items, LAMBDA x : ApplyPredicate(last.p, heap, x))
          /\ ReceiverUnchanged
    /\ last.op = "MapArray" =>
          /\ Len(Result) = Len(last.items)
          /\ \A i \in 1..Len(last.items) :
                Result[i] = ApplyMapFn(last.f, heap, last.items[i])
          /\ ReceiverUnchanged

\* A filter that keeps the first and the third of three items.
FilterWitness ==
    /\ last.op = "FilterArray"
    /\ last.p = "aIsB"
    /\ Len(last.items) = 3
    /\ Result = <<last.items[1], last.items[3]>>
    /\ last.items[1] # last.items[3]

SequenceOps == {"FilterArray", "MapArray", "SortBy", "Unique", "Take", "Skip"}

\* C14: FilterArray, MapArray, SortBy, Unique, Take and Skip always return
\* a sequence; when the receiver is not a sequence and when the operation
\* produces no element, it is an empty sequence: IsArray is true, the
\* length is 0 and it serializes as the JSON array [].
AlwaysReturnsSequence ==
    last.op \in SequenceOps =>
        /\ IsArray(jv["w1"])
        /\ (last.tree.t # "slice" \/ Result = <<>>) =>
              /\ LenOf(heap, jv["w1"]) = 0
              /\ Dumps(heap, jv["w1"]) = <<"[", "]">>

\* The key SortBy and GroupBy give an item: the string coercion of its
\* field, "" when the item has no such field.
KeyOf(item, fieldName) ==
    IF IsNull(Get(heap, item, StrV(fieldName))) THEN sEmpty
    ELSE AsString(heap, Get(heap, item, StrV(fieldName)))

WithKey(items, fieldName, k) == SelectSeq(items, LAMBDA x : KeyOf(x, fieldName) = k)

RECURSIVE SumOfSizes(_, _)
SumOfSizes(groups, keys) ==
    IF keys = {} THEN 0
    ELSE LET k == CHOOSE x \in keys : TRUE
         IN  Len(groups[k]) + SumOfSizes(groups, keys \ {k})

\* C15: GroupBy puts every item in exactly one bucket, the one of the
\* string coercion of its field ("" when the field is missing); a bucket
\* holds its items in their original order, there is no empty bucket, and
\* the sizes sum to the length of the sequence.
GroupByPartitions ==
    last.op = "GroupBy" =>
        /\ DOMAIN last.groups = {KeyOf(last.items[i], last.field) : i \in 1..Len(last.items)}
        /\ \A k \in DOMAIN last.groups :
              last.groups[k] = WithKey(last.items, last.field, k)
        /\ SumOfSizes(last.groups, DOMAIN last.groups) = Len(last.items)
        /\ ReceiverUnchanged

\* Three items in two buckets, one of them the "" bucket.
GroupByWitness ==
    /\ last.op = "GroupBy"
    /\ Len(last.items) = 3
    /\ DOMAIN last.groups = {sEmpty, sB}
    /\ Len(last.groups[sB]) = 2
    /\ last.groups[sB][1] # last.groups[sB][2]

\* C16: SortBy returns the receiver's items in non-decreasing bytewise order
\* of the string coercion of the field, numbers compared as text; items
\* with equal keys keep their relative order, so the result is a
\* permutation of the items; the receiver is unchanged.
SortByStable ==
    last.op = "SortBy" =>
        /\ Len(Result) = Len(last.items)
        /\ \A i \in 1..(Len(Result) - 1) :
              ~StrLess(KeyOf(Result[i + 1], last.field), KeyOf(Result[i], last.field))
        /\ \A i \in 1..Len(last.items) :
              WithKey(Result, last.field, KeyOf(last.items[i], last.field))
                  = WithKey(last.items, last.field, KeyOf(last.items[i], last.field))
        /\ ReceiverUnchanged

\* Two different items with the key b, then {"a":10}: sorting by "a" moves
\* the last item to the front and keeps the other two in their order.
SortByWitness ==
    /\ last.op = "SortBy"
    /\ last.field = sA
    /\ Len(last.items) = 3
    /\ KeyOf(last.items[1], sA) = sB
    /\ KeyOf(last.items[2], sA) = sB
    /\ last.items[1] # last.items[2]
    /\ KeyOf(last.items[3], sA) = s10
    /\ Result = <<last.items[3], last.items[1], last.items[2]>>

\* The first item that has the field with a value equal to `value`.
HasFieldEqual(item, fieldName, value) ==
    /\ ~IsNull(Get(heap, item, StrV(fieldName)))
    /\ FieldEquals(heap, item, fieldName, value)

FirstWhere(items, Test(_)) ==
    IF \E i \in 1..Len(items) : Test(items[i])
    THEN items[CHOOSE i \in 1..Len(items) :
                   Test(items[i]) /\ \A j \in 1..(i - 1) : ~Test(items[j])]
    ELSE Null

\* C17: FindInArray returns the first item, in array order, that satisfies
\* the predicate, and FindByField the first item that has the field with a
\* value equal to the one given; both return Null when no item matches or
\* the receiver is not a sequence.
FindReturnsFirstMatch ==
    /\ last.op = "FindInArray" =>
          jv["w1"] = FirstWhere(last.items, LAMBDA x : ApplyPredicate(last.p, heap, x))
    /\ last.op = "FindByField" =>
          jv["w1"] = FirstWhere(last.items,
                                LAMBDA x : HasFieldEqual(x, last.field, last.value))

\* What FindInArray alone does.
FindInArrayFirstMatch ==
    last.op = "FindInArray" =>
        jv["w1"] = FirstWhere(last.items, LAMBDA x : ApplyPredicate(last.p, heap, x))

(***************************************************************************)
(* The builder.                                                            *)
(***************************************************************************)
\* What a builder function leaves in a fresh object builder: its AddField
\* calls, a later one replacing an earlier one on the same key.
RECURSIVE BuiltObject(_)
BuiltObject(fn) ==
    IF fn = <<>> THEN EmptyMap
    ELSE LET step == fn[Len(fn)]
             before == BuiltObject(SubSeq(fn, 1, Len(fn) - 1))
         IN  IF step.call = "AddField"
             THEN [k \in DOMAIN before \cup {step.key} |->
                      IF k = step.key THEN step.val ELSE before[k]]
             ELSE before

\* What it leaves in a fresh array builder: the items of its AddItem calls.
RECURSIVE BuiltArray(_)
BuiltArray(fn) ==
    IF fn = <<>> THEN <<>>
    ELSE IF Head(fn).call = "AddItem" THEN <<Head(fn).val>> \o BuiltArray(Tail(fn))
    ELSE BuiltArray(Tail(fn))

Built ==
    IF last.op = "AddObject" THEN [t |-> "map", m |-> BuiltObject(last.fn)]
    ELSE [t |-> "slice", a |-> BuiltArray(last.fn)]

\* C18: AddObject(key, fn) and AddArray(key, fn) on an object builder run fn
\* on a fresh empty nested builder and then store under key the mapping or
\* the sequence fn built, items in the order added; the other fields of the
\* builder keep their values.
NestedBuilderStored ==
    (last.op \in {"AddObject", "AddArray"} /\ last.tree.t = "map") =>
        /\ Tree(heap, jv["w1"]) = Built
        /\ heap.maps[jv["orig"].id][last.key] = jv["w1"]
        /\ Tree(heap, jv["orig"]) =
              [t |-> "map",
               m |-> [k \in DOMAIN last.tree.m \cup {last.key} |->
                         IF k = last.key THEN Built ELSE last.tree.m[k]]]

\* AddField("x", 1).AddObject("y", z := 2) gives {"x":1,"y":{"z":2}}.
NestedBuilderWitness ==
    /\ last.op = "AddObject"
    /\ last.tree = [t |-> "map", m |-> (sX :> IntV(1))]
    /\ last.key = sY
    /\ last.fn = <<FieldStep(sZ, IntV(2))>>
    /\ ToJSONString(heap, jv["orig"])
           = <<"{", "\"", "x", "\"", ":", "1", ",", "\"", "y", "\"", ":",
               "{", "\"", "z", "\"", ":", "2", "}", "}">>

\* On an array builder the error of Set is dropped and nothing is stored.
NestedOnArrayBuilderDropped ==
    (last.op \in {"AddObject", "AddArray"} /\ last.tree.t = "slice") =>
        Tree(heap, jv["orig"]) = last.tree

(***************************************************************************)
(* The pattern extractors.                                                 *)
(***************************************************************************)
\* The fields of the document: none when it is not a mapping.
Fields == IF jv["orig"].t = "map" THEN heap.maps[jv["orig"].id] ELSE EmptyMap

HasField(k) == k \in DOMAIN Fields /\ ~IsNull(Fields[k])

\* The value of the first candidate field, in list order, that is present
\* and not null.
FirstPresent(candidates) ==
    Fields[candidates[CHOOSE i \in 1..Len(candidates) :
                          /\ HasField(candidates[i])
                          /\ \A j \in 1..(i - 1) : ~HasField(candidates[j])]]

NonePresent(candidates) == \A i \in 1..Len(candidates) : ~HasField(candidates[i])

Extracted(candidates, none) ==
    IF NonePresent(candidates) THEN none ELSE AsString(heap, FirstPresent(candidates))

\* C19: GetUserInfo and GetAPIResponseInfo map each concept to the string
\* coercion of the first of its candidate fields, in list order, that is
\* present and not null, and to the empty string when none is.
ExtractorsFirstPresentOrEmpty ==
    /\ last.op = "GetUserInfo" =>
          \A c \in DOMAIN UserInfoPaths : last.res[c] = Extracted(UserInfoPaths[c], sEmpty)
    /\ last.op = "GetAPIResponseInfo" =>
          \A c \in DOMAIN APIResponseInfoPaths :
              last.res[c] = Extracted(APIResponseInfoPaths[c], sEmpty)

\* What the extractors do: the same with <nil> for a concept none of whose
\* candidate fields is present.
ExtractorsFirstPresentOrNil ==
    /\ last.op = "GetUserInfo" =>
          \A c \in DOMAIN UserInfoPaths : last.res[c] = Extracted(UserInfoPaths[c], sNil)
    /\ last.op = "GetAPIResponseInfo" =>
          \A c \in DOMAIN APIResponseInfoPaths :
              last.res[c] = Extracted(APIResponseInfoPaths[c], sNil)

StatusFields == <<sStatus, sState, sResult>>

ErrorFields == <<sError, sError_message, sErrorMessage>>

StatusIn(values) ==
    /\ ~NonePresent(StatusFields)
    /\ ToLower(AsString(heap, FirstPresent(StatusFields))) \in values

ErrorFieldNotEmpty ==
    /\ ~NonePresent(ErrorFields)
    /\ AsString(heap, FirstPresent(ErrorFields)) # sEmpty

\* C20: IsAPIError is true only if the status, state or result field is one
\* of error, fail, failed, failure, false, 0, or an error, error_message or
\* errorMessage field exists and is not empty; so it is false, and not true
\* together with IsAPISuccess, for a response whose status is a success
\* value and that has no error field.
IsAPIErrorOnlyOnError ==
    last.op = "IsAPIError" =>
        /\ last.res => (StatusIn(errorValues) \/ ErrorFieldNotEmpty)
        /\ (StatusIn(successValues) /\ NonePresent(ErrorFields)) =>
              ~(last.res /\ IsAPISuccess(heap, jv["orig"]))

\* What IsAPIError does: it is true exactly when the status is an error
\* value or the first error field present is not the empty string, a
\* response without any error field included.
IsAPIErrorUnlessEmptyError ==
    last.op = "IsAPIError" =>
        (last.res <=> (StatusIn(errorValues)
                        \/ NonePresent(ErrorFields)
                        \/ ErrorFieldNotEmpty))

(***************************************************************************)
(* Append, Extend and Delete through a wrapper of a nested sequence.       *)
(***************************************************************************)
\* Wrapper w holds the sequence the root has under `key`: it is what
\* orig.Get(key) returns.
HoldsChild(w, key) ==
    /\ w # "orig"
    /\ jv[w].t = "slice"
    /\ jv[w] = Get(heap, jv["orig"], key)

\* The step is a call of one of `ops` through wrapper w that returned no
\* error.
Succeeds(ops, w) ==
    /\ Idle
    /\ last'.op \in ops
    /\ last'.w = w
    /\ last'.err = NoErr

\* C21: after Append or Extend on an array wrapper obtained from a parent
\* with Get, reading the same array again through the parent shows the
\* appended items: the parent's array has grown and reads as the wrapper
\* does.
AppendVisibleThroughParent ==
    [][\A w \in Wrappers, key \in GetKeys :
          Succeeds({"Append", "Extend"}, w) /\ HoldsChild(w, key) =>
              Tree(heap', Get(heap', jv'["orig"], key)) = Tree(heap', jv'[w])]_vars

\* What Append and Extend do: the receiver reads as the old sequence with
\* the items added, and the parent reads as it did before the call.
AppendVisibleThroughReceiverOnly ==
    [][\A w \in Wrappers, key \in GetKeys :
          Succeeds({"Append", "Extend"}, w) /\ HoldsChild(w, key) =>
              /\ Len(Tree(heap', jv'[w]).a) > Len(Tree(heap, jv[w]).a)
              /\ SubSeq(Tree(heap', jv'[w]).a, 1, jv[w].len) = Tree(heap, jv[w]).a
              /\ Tree(heap', jv'["orig"]) = Tree(heap, jv["orig"])]_vars

\* C22: after Delete(i) with a valid index on an array wrapper, the array is
\* the original with element i removed, and this is what is read through
\* that wrapper, through the parent and through any other wrapper that
\* holds the same array.
DeleteVisibleEverywhere ==
    [][\A w \in Wrappers :
          Succeeds({"Delete"}, w) /\ jv[w].t = "slice" =>
              LET removed == SeqWithout(Tree(heap, jv[w]).a, last'.key.n + 1)
              IN  /\ Tree(heap', jv'[w]).a = removed
                  /\ \A key \in GetKeys :
                        HoldsChild(w, key) =>
                            Tree(heap', Get(heap', jv'["orig"], key)).a = removed
                  /\ \A x \in Wrappers :
                        jv[x] = jv[w] => Tree(heap', jv'[x]).a = removed]_vars

\* What Delete does on a sequence: the receiver reads as the original with
\* the element removed, while the parent keeps its length and reads the
\* elements moved down with the last one twice.
DeleteShortensReceiverOnly ==
    [][\A w \in Wrappers, key \in GetKeys :
          Succeeds({"Delete"}, w) /\ HoldsChild(w, key) =>
              LET old == Tree(heap, jv[w]).a
                  removed == SeqWithout(old, last'.key.n + 1)
              IN  /\ Tree(heap', jv'[w]).a = removed
                  /\ Tree(heap', Get(heap', jv'["orig"], key)).a =
                        Append(removed, old[Len(old)])]_vars

(***************************************************************************)
(* SetPath.                                                                *)
(***************************************************************************)
\* The paths read before and after a SetPath call that fails.
ReadPaths == SeqsUpTo({sA, sB, s0, s1}, MaxSegs) \ {<<>>}

\* Tree t with `val` at the end of the path `segs` and everything off that
\* path as it is in t; a segment that is missing or null becomes a mapping.
RECURSIVE Written(_, _, _)
Written(t, segs, val) ==
    IF segs = <<>> THEN val
    ELSE IF t.t = "map" THEN
        [t |-> "map",
         m |-> MapWith(t.m, Head(segs),
                       Written(IF Head(segs) \in DOMAIN t.m THEN t.m[Head(segs)] ELSE Null,
                               Tail(segs), val))]
    ELSE IF t.t = "slice" THEN
        [t |-> "slice",
         a |-> [t.a EXCEPT ![Atoi(Head(segs)) + 1] = Written(@, Tail(segs), val)]]
    ELSE [t |-> "map", m |-> (Head(segs) :> Written(Null, Tail(segs), val))]

\* An object path: no segment is written as an integer.
ObjectPath(parts) == \A i \in 1..Len(parts) : parts[i] # <<>> /\ ~AtoiOk(parts[i])

\* Along `parts` every value met before the last segment is a mapping, up
\* to the first segment that is missing or null.
RECURSIVE MappingsAlong(_, _, _)
MappingsAlong(h, v, parts) ==
    /\ v.t = "map"
    /\ \/ Len(parts) = 1
       \/ IsNull(Get(h, v, StrV(Head(parts))))
       \/ MappingsAlong(h, Get(h, v, StrV(Head(parts))), Tail(parts))

\* C23: for a dotted path whose segments are all non-empty, if SetPath
\* returns no error then Path(path) afterwards resolves to the value
\* written; along an object path the missing intermediate mappings are
\* created, so the call succeeds whenever the values it meets are mappings;
\* and the values at paths that are neither a prefix nor an extension of the
\* written path are unchanged: the receiver reads as it did, but for the
\* value at the end of the path.
SetPathThenPath ==
    [][\A w \in Wrappers :
          Idle /\ last'.op = "SetPath" /\ last'.w = w /\ NoEmptySegment(last'.path) =>
              LET parts == Split(last'.path, ".")
              IN  /\ ObjectPath(parts) /\ MappingsAlong(heap, jv[w], parts) =>
                        /\ last'.err = NoErr
                        /\ \A n \in 1..(Len(parts) - 1) :
                              PathParts(heap', jv'[w], SubSeq(parts, 1, n)).t = "map"
                  /\ last'.err = NoErr =>
                        /\ Path(heap', jv'[w], last'.path) = last'.val
                        /\ Tree(heap', jv'[w]) =
                              Written(Tree(heap, jv[w]), parts, Tree(heap', last'.val))]_vars

\* The first call that changes something is SetPath("a.a.b", "a") on the
\* root, which has no "a" under "a": the mapping has been created.
SetPathWitness ==
    /\ last.op = "SetPath"
    /\ last.err = NoErr
    /\ last.w = "orig"
    /\ nops = 1
    /\ last.path = sA \o sDot \o sA \o sDot \o sB
    /\ Q(heap, jv["orig"], <<StrV(sA), StrV(sA)>>).t = "map"
    /\ Q(heap, jv["orig"], <<StrV(sA), StrV(sA), StrV(sB)>>) = StrV(sA)

\* C24: when SetPath returns an error the value tree is left exactly as it
\* was before the call: no intermediate container has been created and no
\* existing key has been overwritten.
SetPathErrorChangesNothing ==
    [][\A w \in Wrappers :
          Idle /\ last'.op = "SetPath" /\ last'.w = w /\ last'.err # NoErr =>
              \A x \in Wrappers : Tree(heap', jv'[x]) = Tree(heap, jv[x])]_vars

\* What SetPath does when it returns an error: the containers it has made
\* for missing intermediates stay, and no string, number or boolean that
\* could be read before has changed.
SetPathErrorKeepsScalars ==
    [][\A w \in Wrappers :
          Idle /\ last'.op = "SetPath" /\ last'.w = w /\ last'.err # NoErr =>
              \A x \in Wrappers, q \in ReadPaths :
                  PathParts(heap, jv[x], q).t \in {"bool", "num", "str"} =>
                      PathParts(heap', jv'[x], q) = PathParts(heap, jv[x], q)]_vars

(***************************************************************************)
(* DeepSearch, DeepSearchAll, FindPath.                                    *)
(***************************************************************************)
\* The mappings and sequences at nesting depth d below v, v itself being at
\* depth 0.
RECURSIVE ContainersAt(_, _, _)
ContainersAt(h, v, d) ==
    IF v.t \notin {"map", "slice"} THEN {}
    ELSE IF d = 0 THEN {v}
    ELSE IF v.t = "map" THEN
        UNION {ContainersAt(h, h.maps[v.id][k], d - 1) : k \in DOMAIN h.maps[v.id]}
    ELSE UNION {ContainersAt(h, h.arrs[v.arr][i], d - 1) : i \in 1..v.len}

\* The values stored under `key` in the mappings at depth 0 to maxDepth.
Occurrences(h, v, key) ==
    {h.maps[c.id][key] :
        c \in {x \in UNION {ContainersAt(h, v, d) : d \in 0..maxDepth} :
                  x.t = "map" /\ key \in DOMAIN h.maps[x.id]}}

Range(q) == {q[i] : i \in 1..Len(q)}

\* C25: DeepSearch returns the value of the first occurrence of the key in a
\* pre-order traversal that examines the containers at depth 0 to 10 and
\* none deeper: it is the first element DeepSearchAll collects, for some
\* order in which the keys of the mappings are visited, and it is Null
\* exactly when DeepSearchAll finds no occurrence that is not null.
DeepSearchFirstOfAll ==
    last.op = "DeepSearch" =>
        \E alls \in {DeepSearchAll(heap, jv["orig"], last.key)} :
            /\ \A all \in alls : Range(all) = Occurrences(heap, jv["orig"], last.key)
            /\ \E all \in alls : last.res = (IF all = <<>> THEN Null ELSE all[1])
            /\ IsNull(last.res) <=> \A all \in alls : \A x \in Range(all) : IsNull(x)

\* What DeepSearch does: a value it returns is stored under the key at
\* depth 0 to 10; at the root a key that holds null is returned, below the
\* root it is passed over, and a mapping that has the key is not searched
\* any deeper.  DeepSearchAll collects every occurrence at depth 0 to 10.
DeepSearchWithinDepth ==
    /\ last.op = "DeepSearch" =>
          /\ ~IsNull(last.res) => last.res \in Occurrences(heap, jv["orig"], last.key)
          /\ Has(heap, jv["orig"], StrV(last.key)) =>
                last.res = Get(heap, jv["orig"], StrV(last.key))
    /\ last.op = "DeepSearchAll" =>
          Range(last.res) = Occurrences(heap, jv["orig"], last.key)

\* C26: whenever FindPath returns a non-empty path, Path of it on the same
\* value resolves to the value stored under an occurrence of the key, also
\* when the occurrence lies inside a sequence at any index; and it returns
\* the empty string exactly when there is no occurrence for DeepSearch to
\* find.
FindPathResolves ==
    last.op = "FindPath" =>
        \E found \in {Occurrences(heap, jv["orig"], last.key)} :
            /\ last.res # sEmpty => Path(heap, jv["orig"], last.res) \in found
            /\ last.res = sEmpty <=> found = {}

\* What FindPath does: it returns the empty string exactly when the key
\* occurs nowhere at depth 0 to 10, and a path that ends with the key
\* otherwise.
FindPathEmptyIffNoOccurrence ==
    last.op = "FindPath" =>
        /\ last.res = sEmpty <=> Occurrences(heap, jv["orig"], last.key) = {}
        /\ last.res # sEmpty =>
              Split(last.res, ".")[Len(Split(last.res, "."))] = last.key

(***************************************************************************)
(* The suggester.                                                          *)
(***************************************************************************)
Validated == Idle /\ last'.op = "ValidatePathWithSuggestions"

MostRecent(q, n) == SubSeq(q, Len(q) - n + 1, Len(q))

\* What the history is after one more access, when an overflow leaves the
\* n most recent entries.
Recorded(history, path, n) ==
    IF Len(history) + 1 > historyLimit
      THEN MostRecent(Append(history, path), n)
      ELSE Append(history, path)

\* C27: the history never holds more than 100 entries; a successful
\* validation appends its path, and when that makes the history overflow
\* the most recent 50 entries are left, in order; a failed validation
\* records nothing.
HistoryTrimmedToMostRecent50 ==
    [][Validated =>
         /\ Len(js'.history) <= historyLimit
         /\ last'.valid => js'.history = Recorded(js.history, last'.path, historyKept)
         /\ ~last'.valid => js' = js]_vars

\* What the code does: the overflow leaves the 51 most recent entries.
HistoryTrimmedToMostRecent51 ==
    [][Validated =>
         /\ Len(js'.history) <= historyLimit
         /\ last'.valid =>
               js'.history = Recorded(js.history, last'.path, historyKept + 1)
         /\ ~last'.valid => js' = js]_vars

\* The history has overflowed, and a failed validation has followed.
HistoryOverflowed ==
    /\ Accesses(RepeatedPath) > historyLimit
    /\ Len(js.history) < historyLimit
    /\ last.op = "ValidatePathWithSuggestions" /\ ~last.valid

\* 1 - distance / length of the longer string, as a fraction
Similarity(p, q) ==
    LET longer == IF Len(p) < Len(q) THEN Len(q) ELSE Len(p)
    IN  Fraction(longer - levenshteinDistance(p, q), longer)

\* The candidates that are similar enough to be suggested for a path.
Eligible(path) ==
    {p \in SuggestPaths(heap, jv["orig"]) :
        Above(Similarity(path, p), Fraction(6, 10))}

\* C28: ValidatePathWithSuggestions(path) returns true, with no suggestion,
\* exactly when Path(path) is not null; otherwise it returns at most 5
\* suggestions, each a member of SuggestPaths whose similarity to the path
\* is above 0.6, in order of non-increasing similarity, and no candidate it
\* leaves out is more similar than one it returns.  It leaves out a
\* candidate above 0.6 only when it returns 5.
SuggestionsAreTheMostSimilar ==
    last.op = "ValidatePathWithSuggestions" =>
       LET path == last.path
           suggestions == last.suggestions
       IN  /\ last.valid <=> ~IsNull(Path(heap, jv["orig"], path))
           /\ last.valid => suggestions = <<>>
           /\ ~last.valid =>
                 /\ Len(suggestions) <= 5
                 /\ Range(suggestions) \subseteq Eligible(path)
                 /\ \A i, j \in DOMAIN suggestions :
                       i < j => /\ suggestions[i] # suggestions[j]
                                /\ ~Above(Similarity(path, suggestions[j]),
                                          Similarity(path, suggestions[i]))
                 /\ \A p \in Eligible(path) \ Range(suggestions) :
                       /\ Len(suggestions) = 5
                       /\ \A i \in DOMAIN suggestions :
                             ~Above(Similarity(path, p),
                                    Similarity(path, suggestions[i]))

\* Five suggestions of two similarities, and a sixth candidate left out.
SuggestionsWitness ==
    /\ last.op = "ValidatePathWithSuggestions"
    /\ ~last.valid
    /\ Len(last.suggestions) = 5
    /\ Eligible(last.path) \ Range(last.suggestions) # {}
    /\ Above(Similarity(last.path, last.suggestions[1]),
             Similarity(last.path, last.suggestions[5]))

(***************************************************************************)
(* Take and Skip.                                                          *)
(***************************************************************************)
\* min(max(n, 0), len)
Clamped(n, len) == IF n < 0 THEN 0 ELSE IF n > len THEN len ELSE n

\* C30: for every integer n and every sequence, Take(n) is the prefix of
\* the first min(max(n, 0), len) items and Skip(n) is the rest, so the two
\* put together are the receiver and neither holds an element the receiver
\* has not.
TakeAndSkipSplitTheReceiver ==
    (last.op \in {"Take", "Skip"} /\ last.tree.t = "slice") =>
        LET kept == Clamped(last.n, Len(last.items))
        IN  /\ last.op = "Take" => Result = SubSeq(last.items, 1, kept)
            /\ last.op = "Skip" => Result = SubSeq(last.items, kept + 1, Len(last.items))

\* What the code does: for n >= 0 they split the receiver; Take of a
\* negative n is empty, and Skip of a negative n is the receiver after -n
\* nulls.
TakeAndSkipSplitFromZero ==
    (last.op \in {"Take", "Skip"} /\ last.tree.t = "slice") =>
        LET kept == Clamped(last.n, Len(last.items))
        IN  /\ last.op = "Take" => Result = SubSeq(last.items, 1, kept)
            /\ last.op = "Skip" =>
                  Result = [i \in 1..(kept - last.n) |-> Null]
                              \o SubSeq(last.items, kept + 1, Len(last.items))

\* Skip(-1) of a sequence of two items has given three.
SkipOfNegative ==
    /\ last.op = "Skip" /\ last.n < 0
    /\ Len(last.items) = 2
    /\ Len(Result) = 3

(***************************************************************************)
(* SanitizeForOutput.                                                      *)
(***************************************************************************)
\* A document without the mapping keys that contain a sensitive name, at
\* any depth.
RECURSIVE WithoutSensitive(_)
WithoutSensitive(d) ==
    CASE d.t = "obj" ->
            JObj([k \in {x \in DOMAIN d.m : ~IsSensitive(x)} |-> WithoutSensitive(d.m[k])])
      [] d.t = "arr" -> JArr([i \in 1..Len(d.a) |-> WithoutSensitive(d.a[i])])
      [] OTHER -> d

\* C29: SanitizeForOutput returns the document without the mapping keys
\* that contain a sensitive name in any case, at any depth and whatever the
\* root is; every other key and value is as it was.
SanitizeRemovesSensitiveKeys ==
    last.op = "SanitizeForOutput" =>
        Marshal(heap, jv["w1"]) = WithoutSensitive(last.doc)

\* A sequence holds a sequence somewhere in the document.
RECURSIVE SequenceInSequence(_)
SequenceInSequence(d) ==
    CASE d.t = "obj" -> \E k \in DOMAIN d.m : SequenceInSequence(d.m[k])
      [] d.t = "arr" ->
            \E i \in 1..Len(d.a) : d.a[i].t = "arr" \/ SequenceInSequence(d.a[i])
      [] OTHER -> FALSE

\* What the code does: a root that is not a mapping is returned as it is,
\* and under a mapping the keys are removed down to the first sequence
\* that is an item of a sequence.
SanitizeCleansMappings ==
    last.op = "SanitizeForOutput" =>
        /\ last.doc.t # "obj" => Marshal(heap, jv["w1"]) = last.doc
        /\ last.doc.t = "obj" =>
              /\ DOMAIN Marshal(heap, jv["w1"]).m =
                    {k \in DOMAIN last.doc.m : ~IsSensitive(k)}
              /\ ~SequenceInSequence(last.doc) =>
                    Marshal(heap, jv["w1"]) = WithoutSensitive(last.doc)

====
